---- MODULE Spec2Model ----
(***************************************************************************)
(* ip-wiki (src/src/IP.js): parsing, range derivation, stringification of  *)
(* IPv4/IPv6 addresses and CIDRs.                                          *)
(*                                                                         *)
(* A text is a sequence of characters, each character a one-symbol string  *)
(* ("1", ":", "/"); characters without an ASCII form carry a name ("LRM"   *)
(* is U+200E, "FW1" is the fullwidth digit U+FF11).  A JavaScript value is *)
(* a record with a "type" field.                                           *)
(***************************************************************************)
EXTENDS Integers, Sequences, FiniteSets, TLC

VARIABLES fn, arg, out

vars == <<fn, arg, out>>

-----------------------------------------------------------------------------
(* JavaScript values *)

Null == [type |-> "null"]
Undefined == [type |-> "undefined"]
Bool(b) == [type |-> "boolean", val |-> b]
Str(s) == [type |-> "string", chars |-> s]
Num(n) == [type |-> "number", kind |-> "int", val |-> n]
\* n + 1/2, a number that is not an integer
Half(n) == [type |-> "number", kind |-> "half", val |-> n]
NaN == [type |-> "number", kind |-> "nan", val |-> 0]
Thrown(e) == [type |-> "throw", error |-> e]

-----------------------------------------------------------------------------
(* Characters *)

DecDigits == <<"0", "1", "2", "3", "4", "5", "6", "7", "8", "9">>
LowerHex == DecDigits \o <<"a", "b", "c", "d", "e", "f">>
UpperHex == DecDigits \o <<"A", "B", "C", "D", "E", "F">>

Range(s) == {s[i] : i \in DOMAIN s}

\* \d
Digits == Range(DecDigits)
IsDigit(c) == c \in Digits
\* [0-9a-fA-F], the digits parseInt(el, 16) reads
AsciiHex == Range(LowerHex) \cup Range(UpperHex)
IsAsciiHex(c) == c \in AsciiHex
\* Fullwidth forms that carry the Unicode property Hex_Digit
FullwidthHex == {"FW1", "FWA"}
\* \p{Hex_Digit}
HexDigitProp == AsciiHex \cup FullwidthHex
\* [\p{Hex_Digit}:]
HexOrColon == HexDigitProp \cup {":"}
\* [\u200E\u200F\u202A-\u202E], by Unicode name
BidiChars == {"LRM", "RLM", "LRE", "RLE", "PDF", "LRO", "RLO"}
\* what String.prototype.trim removes: the 25 characters of WhiteSpace and
\* LineTerminator of ECMAScript. The ASCII ones stand for themselves (tab,
\* line feed, vertical tab, form feed, carriage return, space); the others
\* are named: NBSP U+00A0, BOM U+FEFF, LS U+2028, IDSP U+3000, and Uxxxx for
\* U+1680, U+2000..U+200A, U+2029, U+202F, U+205F
WhiteSpace ==
    {"\t", "\n", "", "\f", "\r", " ", "NBSP", "BOM", "LS", "IDSP",
     "U1680", "U2000", "U2001", "U2002", "U2003", "U2004", "U2005", "U2006",
     "U2007", "U2008", "U2009", "U200A", "U2029", "U202F", "U205F"}

HexVal(c) ==
    IF c \in Range(LowerHex)
    THEN (CHOOSE i \in DOMAIN LowerHex : LowerHex[i] = c) - 1
    ELSE (CHOOSE i \in DOMAIN UpperHex : UpperHex[i] = c) - 1

-----------------------------------------------------------------------------
(* String primitives of the JavaScript runtime *)

\* least element of a non-empty set of integers, 0 for the empty set
First(S) == IF S = {} THEN 0 ELSE CHOOSE i \in S : \A j \in S : i <= j
\* greatest element of a non-empty set of integers, 0 for the empty set
Last(S) == IF S = {} THEN 0 ELSE CHOOSE i \in S : \A j \in S : i >= j

\* String.prototype.repeat, for n >= 0
Repeat(s, n) == [i \in 1..(n * Len(s)) |-> s[((i - 1) % Len(s)) + 1]]

\* s.startsWith(pat, i), 1-based
MatchAt(s, pat, i) ==
    /\ i + Len(pat) - 1 <= Len(s)
    /\ \A k \in 1..Len(pat) : s[i + k - 1] = pat[k]

\* 1-based index of the first occurrence of pat in s, 0 if none
IndexOf(s, pat) == First({i \in 1..(Len(s) - Len(pat) + 1) : MatchAt(s, pat, i)})

\* s with the Len(pat) characters at i replaced by rep; s itself when i = 0
Splice(s, i, pat, rep) ==
    IF i = 0 THEN s
    ELSE SubSeq(s, 1, i - 1) \o rep \o SubSeq(s, i + Len(pat), Len(s))

\* s.replace(pat, rep) with a string pattern: the first occurrence only
ReplaceFirst(s, pat, rep) == Splice(s, IndexOf(s, pat), pat, rep)

\* the positions of the character sep in s, and the position after the end
SepPositions(s, sep) == {i \in DOMAIN s : s[i] = sep} \cup {Len(s) + 1}

\* the piece of s that ends before position e, given the separator positions
PieceBefore(s, seps, e) == SubSeq(s, Last({0} \cup {i \in seps : i < e}) + 1, e - 1)

\* the k-th smallest element of a set of integers
Nth(S, k) == CHOOSE e \in S : Cardinality({i \in S : i <= e}) = k

\* the pieces of s between the separator positions seps, in order
Pieces(s, seps) == [k \in 1..Cardinality(seps) |-> PieceBefore(s, seps, Nth(seps, k))]

\* s.split(sep) with a one-character separator: a sequence of texts
Split(s, sep) == Pieces(s, SepPositions(s, sep))

RECURSIVE Join(_, _)
\* Array.prototype.join
Join(ss, sep) ==
    IF Len(ss) = 0 THEN <<>>
    ELSE IF Len(ss) = 1 THEN ss[1]
    ELSE ss[1] \o sep \o Join(Tail(ss), sep)

RECURSIVE CountFrom(_, _, _)
\* the non-overlapping matches of the literal pat in s from position i on
CountFrom(s, pat, i) ==
    IF i + Len(pat) - 1 > Len(s) THEN 0
    ELSE IF MatchAt(s, pat, i) THEN 1 + CountFrom(s, pat, i + Len(pat))
    ELSE CountFrom(s, pat, i + 1)

\* (s.match(/pat/g) || []).length for a literal pattern
CountMatches(s, pat) == CountFrom(s, pat, 1)

\* end (exclusive) of the longest run of characters of the class cls from i
RunEnd(s, i, cls) == First({j \in i..(Len(s) + 1) : j = Len(s) + 1 \/ s[j] \notin cls})

RECURSIVE ParseDigits(_, _, _)
\* value of a text of digits in the given radix, most significant first
ParseDigits(s, radix, acc) ==
    IF Len(s) = 0 THEN acc
    ELSE ParseDigits(Tail(s), radix, acc * radix + HexVal(Head(s)))

\* parseInt(s): s is a non-empty text of decimal digits here (a \d+ capture)
ParseIntDec(s) == ParseDigits(s, 10, 0)

\* parseInt(s, 16): the longest prefix of ASCII hex digits; -1 stands for NaN
\* (no comparison with NaN is true, and none with -1 below asks for less than 0)
ParseIntHex(s) ==
    IF Len(s) = 0 \/ ~IsAsciiHex(s[1]) THEN -1
    ELSE ParseDigits(SubSeq(s, 1, RunEnd(s, 1, AsciiHex) - 1), 16, 0)

RECURSIVE ToDigits(_, _)
\* Number.prototype.toString(radix) of a non-negative integer
ToDigits(n, radix) ==
    IF n < radix THEN <<LowerHex[n + 1]>>
    ELSE ToDigits(n \div radix, radix) \o <<LowerHex[(n % radix) + 1]>>

\* String(x) for a number, as '/' + bitLen concatenates it
NumberToString(x) ==
    CASE x.kind = "nan" -> <<"N", "a", "N">>
      [] x.kind = "int" /\ x.val >= 0 -> ToDigits(x.val, 10)
      [] x.kind = "int" /\ x.val < 0 -> <<"-">> \o ToDigits(-x.val, 10)
      [] x.kind = "half" /\ x.val >= 0 -> ToDigits(x.val, 10) \o <<".", "5">>
      [] x.kind = "half" /\ x.val < 0 -> <<"-">> \o ToDigits(-x.val - 1, 10) \o <<".", "5">>

-----------------------------------------------------------------------------
(* IPBase *)

\* StripBidi that removes the first run of marks only
StripBidiOnce(s) ==
    IF \A k \in DOMAIN s : s[k] \notin BidiChars THEN s
    ELSE SubSeq(s, 1, First({k \in DOMAIN s : s[k] \in BidiChars}) - 1)
         \o SubSeq(s, First({k \in DOMAIN s : k > First({j \in DOMAIN s : s[j] \in BidiChars})
                                                /\ s[k] \notin BidiChars} \cup {Len(s) + 1}),
                   Len(s))

\* str.replace(/[\u200E\u200F\u202A-\u202E]+/g, '')
StripBidi(s) == SelectSeq(s, LAMBDA c : c \notin BidiChars)

\* the characters of s from position a to position b; none when a = 0
Between(s, a, b) == IF a = 0 THEN <<>> ELSE SubSeq(s, a, b)

\* String.prototype.trim
Trim(s) ==
    Between(s, First({i \in DOMAIN s : s[i] \notin WhiteSpace}),
               Last({i \in DOMAIN s : s[i] \notin WhiteSpace}))

\* IPBase.clean(str)
clean(str) == Trim(StripBidi(str))

\* whether s from position i on is '/' followed by one digit or more to the end
IsPrefixLenAt(s, i) ==
    /\ i < Len(s)
    /\ s[i] = "/"
    /\ \A k \in (i + 1)..Len(s) : IsDigit(s[k])

\* s up to the position before i; s itself when i = 0
CutAt(s, i) == IF i = 0 THEN s ELSE SubSeq(s, 1, i - 1)

\* ipStr.replace(/\/\d+$/, ''): drop a final '/' followed by digits to the end
StripPrefixLen(s) == CutAt(s, First({i \in DOMAIN s : IsPrefixLenAt(s, i)}))

\* WithBitLen that keeps the prefix length of the text
WithBitLenKept(s, bitLen) ==
    IF bitLen.type = "number"
    THEN s \o <<"/">> \o NumberToString(bitLen)
    ELSE s

\* lines 57-60: an explicit bit length replaces the one in the text
WithBitLen(s, bitLen) ==
    IF bitLen.type = "number"
    THEN StripPrefixLen(s) \o <<"/">> \o NumberToString(bitLen)
    ELSE s

\* whether (?:\/(\d+))?$ matches s from position i
SuffixOk(s, i) == i = Len(s) + 1 \/ (i <= Len(s) /\ IsPrefixLenAt(s, i))

\* the capture of (?:\/(\d+))?$ matched from position i, as a bit length:
\* <<>> is null (no capture), <<n>> is parseInt of the digits
BitLenAt(s, i) ==
    IF i = Len(s) + 1 THEN <<>> ELSE <<ParseIntDec(SubSeq(s, i + 1, Len(s)))>>

RECURSIVE DigitRuns(_, _, _)
\* the ends (exclusive) of n runs of digits, each run starting one character
\* after the end of the one before (the first at position i)
DigitRuns(s, i, n) ==
    IF n = 0 THEN <<>>
    ELSE <<RunEnd(s, i, Digits)>> \o DigitRuns(s, RunEnd(s, i, Digits) + 1, n - 1)

\* whether /^(\d+)\.(\d+)\.(\d+)\.(\d+)(?:\/(\d+))?$/ matches s, e the ends of
\* its four runs of digits
IPv4Matches(s, e) ==
    /\ e[1] > 1 /\ e[1] <= Len(s) /\ s[e[1]] = "."
    /\ e[2] > e[1] + 1 /\ e[2] <= Len(s) /\ s[e[2]] = "."
    /\ e[3] > e[2] + 1 /\ e[3] <= Len(s) /\ s[e[3]] = "."
    /\ e[4] > e[3] + 1
    /\ SuffixOk(s, e[4])

\* m[1..4] of the match
IPv4Groups(s, e) ==
    <<SubSeq(s, 1, e[1] - 1), SubSeq(s, e[1] + 1, e[2] - 1),
      SubSeq(s, e[2] + 1, e[3] - 1), SubSeq(s, e[3] + 1, e[4] - 1)>>

\* whether /^([\p{Hex_Digit}:]+)(?:\/(\d+))?$/u matches s, e the end of its
\* run of hex digits and colons
IPv6Matches(s, e) == e > 1 /\ SuffixOk(s, e)

Parsed(parts, bitLen) == [type |-> "Parsed", parts |-> parts, bitLen |-> bitLen]

\* IPv4GroupOk without the check of the length of the group
IPv4GroupOkAnyLength(g) == 0 <= ParseIntDec(g) /\ ParseIntDec(g) <= 255

\* line 75: a group of an IPv4 address is accepted
IPv4GroupOk(g) == Len(g) <= 3 /\ 0 <= ParseIntDec(g) /\ ParseIntDec(g) <= 255

\* parseIPv4 with a bit length above 32 clamped to 32 instead of refused
parseIPv4Clamped(groups, bitLen) ==
    IF \E i \in 1..4 : ~IPv4GroupOk(groups[i]) THEN Null
    ELSE Parsed([i \in 1..4 |-> ParseIntDec(groups[i])],
                IF bitLen # <<>> /\ bitLen[1] > 32 THEN <<32>> ELSE bitLen)

\* lines 66-81: the result for a text that matched the IPv4 pattern
parseIPv4(groups, bitLen) ==
    IF bitLen # <<>> /\ ~(0 <= bitLen[1] /\ bitLen[1] <= 32) THEN Null
    ELSE IF \E i \in 1..4 : ~IPv4GroupOk(groups[i]) THEN Null
    ELSE Parsed([i \in 1..4 |-> ParseIntDec(groups[i])], bitLen)

\* line 95: '::' becomes as many colons as 10 less the number of pieces
Expand(ipStr, n) == ReplaceFirst(ipStr, <<":", ":">>, Repeat(<<":">>, 10 - n))

\* lines 93-97: split on ':', expanding '::' when there are fewer than 7 pieces
IPv6Pieces(ipStr, parts) ==
    IF Len(parts) < 7 THEN Split(Expand(ipStr, Len(parts)), ":") ELSE parts

\* line 102
IPv6Num(el) == IF el = <<>> THEN 0 ELSE ParseIntHex(el)

\* line 103: a group of an IPv6 address is accepted
IPv6GroupOk(el) == Len(el) <= 4 /\ 0 <= IPv6Num(el) /\ IPv6Num(el) <= 65535

\* lines 85-109: the result for a text that matched the IPv6 pattern
parseIPv6(parts, bitLen) ==
    IF bitLen # <<>> /\ ~(0 <= bitLen[1] /\ bitLen[1] <= 128) THEN Null
    ELSE IF Len(parts) # 8 THEN Null
    ELSE IF \E i \in 1..8 : ~IPv6GroupOk(parts[i]) THEN Null
    ELSE Parsed([i \in 1..8 |-> IPv6Num(parts[i])], bitLen)

\* line 82: the conditions on the colons of a potential IPv6 text
ColonsOk(s) == IndexOf(s, <<":", ":", ":">>) = 0 /\ CountMatches(s, <<":", ":">>) < 2

\* lines 62-112: the cleaned text s, e4 the ends of its leading runs of digits,
\* e6 the end of its leading run of hex digits and colons
parseMatch(s, e4, e6) ==
    IF IPv4Matches(s, e4)
    THEN parseIPv4(IPv4Groups(s, e4), BitLenAt(s, e4[4]))
    ELSE IF IPv6Matches(s, e6) /\ ColonsOk(s)
    THEN parseIPv6(IPv6Pieces(SubSeq(s, 1, e6 - 1), Split(SubSeq(s, 1, e6 - 1), ":")),
                   BitLenAt(s, e6))
    ELSE Null

\* lines 56-112, on the characters of a string
parseText(s) == parseMatch(s, DigitRuns(s, 1, 4), RunEnd(s, 1, HexOrColon))

\* IPBase.parse(ipStr, bitLen): a Parsed, or null
parse(ipStr, bitLen) ==
    IF ipStr.type # "string" THEN Null
    ELSE parseText(WithBitLen(clean(ipStr.chars), bitLen))

RECURSIVE BitAnd(_, _)
\* a & b on non-negative integers
BitAnd(a, b) ==
    IF a = 0 \/ b = 0 THEN 0
    ELSE 2 * BitAnd(a \div 2, b \div 2) + (IF a % 2 = 1 /\ b % 2 = 1 THEN 1 ELSE 0)

RECURSIVE BitOr(_, _)
\* a | b on non-negative integers
BitOr(a, b) ==
    IF a = 0 THEN b
    ELSE IF b = 0 THEN a
    ELSE 2 * BitOr(a \div 2, b \div 2) + (IF a % 2 = 1 \/ b % 2 = 1 THEN 1 ELSE 0)

RECURSIVE BitXor(_, _)
\* a ^ b on non-negative integers
BitXor(a, b) ==
    IF a = 0 THEN b
    ELSE IF b = 0 THEN a
    ELSE 2 * BitXor(a \div 2, b \div 2) + (IF a % 2 # b % 2 THEN 1 ELSE 0)

\* str.match(new RegExp(`.{n}`, 'g')): the full chunks of n characters
Chunks(s, n) == [i \in 1..(Len(s) \div n) |-> SubSeq(s, (i - 1) * n + 1, i * n)]

\* line 146: bitLen ones, then zeros up to len^2 * 2 bits
MaskBits(len, bitLen) ==
    Repeat(<<"1">>, bitLen) \o Repeat(<<"0">>, len * len * 2 - bitLen)

\* lines 138-151: the netmask of bitLen bits as limbs
netMaskParts(len, bitLen) ==
    [i \in 1..len |-> ParseDigits(Chunks(MaskBits(len, bitLen), len * 2)[i], 2, 0)]

RangeObject(first, last, bitLen, isCidr) ==
    [type |-> "RangeObject", first |-> first, last |-> last,
     bitLen |-> bitLen, isCidr |-> isCidr]

\* lines 154-159
firstOf(parts, mask) == [i \in DOMAIN parts |-> BitAnd(parts[i], mask[i])]

\* lastOf with the netmask itself where the inverted netmask belongs
lastOfNotInverted(first, mask, high) ==
    [i \in DOMAIN first |-> BitOr(first[i], mask[i])]

\* lines 162-166
lastOf(first, mask, high) ==
    [i \in DOMAIN first |-> BitOr(first[i], BitXor(mask[i], high))]

\* maskedRange with the parts as they are for first
maskedRangeFromParts(parts, mask, bitLen) ==
    RangeObject(parts,
                lastOf(firstOf(parts, mask), mask, IF Len(parts) = 4 THEN 255 ELSE 65535),
                bitLen, TRUE)

\* lines 153-175: the range of a CIDR, given its netmask
maskedRange(parts, mask, bitLen) ==
    RangeObject(firstOf(parts, mask),
                lastOf(firstOf(parts, mask), mask, IF Len(parts) = 4 THEN 255 ELSE 65535),
                bitLen, TRUE)

\* parseRange giving an address without a prefix the bit length 0
parseRangeZeroByDefault(parts, bitLen) ==
    IF Len(parts) # 4 /\ Len(parts) # 8 THEN Thrown("Error")
    ELSE IF bitLen = <<>>
    THEN RangeObject(parts, parts, 0, FALSE)
    ELSE maskedRange(parts, netMaskParts(Len(parts), bitLen[1]), bitLen[1])

\* IPBase.parseRange(parts, bitLen): bitLen is <<>> (null) or <<n>>
parseRange(parts, bitLen) ==
    IF Len(parts) # 4 /\ Len(parts) # 8 THEN Thrown("Error")
    ELSE IF bitLen = <<>>
    THEN RangeObject(parts, parts, IF Len(parts) = 4 THEN 32 ELSE 128, FALSE)
    ELSE maskedRange(parts, netMaskParts(Len(parts), bitLen[1]), bitLen[1])

\* String.prototype.toUpperCase on the characters a result can hold
ToUpperCase(s) ==
    [i \in DOMAIN s |->
        IF s[i] \in Range(LowerHex) THEN UpperHex[HexVal(s[i]) + 1] ELSE s[i]]

\* IPBase.modCase(str, upper)
modCase(str, upper) == IF upper THEN ToUpperCase(str) ELSE str

RECURSIVE ZeroColonsAt(_, _)
\* how many times "0:" repeats at position i of s
ZeroColonsAt(s, i) ==
    IF MatchAt(s, <<"0", ":">>, i) THEN 1 + ZeroColonsAt(s, i + 2) ELSE 0

RECURSIVE ZeroRuns(_, _)
\* a match of k repeats at i if k >= 2, and the matches after it
ZeroRunsStep(s, i, k) ==
    IF k >= 2 THEN <<Repeat(<<"0", ":">>, k)>> \o ZeroRuns(s, i + 2 * k)
    ELSE ZeroRuns(s, i + 1)

\* ret.match(/(?:0:){2,}/g) from position i: the matches, left to right
ZeroRuns(s, i) == IF i > Len(s) THEN <<>> ELSE ZeroRunsStep(s, i, ZeroColonsAt(s, i))

RECURSIVE Longest(_, _)
\* zeros.reduce((a, b) => a.length > b.length ? a : b), a the accumulator
Longest(a, rest) ==
    IF Len(rest) = 0 THEN a
    ELSE Longest(IF Len(a) > Len(Head(rest)) THEN a ELSE Head(rest), Tail(rest))

\* ret.replace(/([^:]):$/, '$1')
StripTrailingColon(s) ==
    IF Len(s) >= 2 /\ s[Len(s)] = ":" /\ s[Len(s) - 1] # ":"
    THEN SubSeq(s, 1, Len(s) - 1)
    ELSE s

\* lines 200-209: collapse the longest match, if there is any match
Collapse(ret, zeros) ==
    IF zeros # <<>>
    THEN StripTrailingColon(
             ReplaceFirst(
                 ReplaceFirst(ret, Longest(Head(zeros), Tail(zeros)), <<":", ":">>),
                 <<":", ":", ":">>, <<":", ":">>))
    ELSE ret

\* lines 198-199
CollapseZeros(ret) == Collapse(ret, ZeroRuns(ret, 1))

\* lines 198-209: the 'short' notation of hex parts, before the suffix
ShortForm(parts) == CollapseZeros(Join(parts, <<":">>) \o <<":">>)

\* mode is "unset", "short" or "long"
Options(mode, capitalize) == [mode |-> mode, capitalize |-> capitalize]

\* Padded with one zero at most in front of each part
PaddedOnce(parts, width) ==
    [i \in DOMAIN parts |-> (IF Len(parts[i]) < width THEN <<"0">> ELSE <<>>) \o parts[i]]

\* lines 212-215: '0'.repeat(width - str.length) + str
Padded(parts, width) ==
    [i \in DOMAIN parts |-> Repeat(<<"0">>, width - Len(parts[i])) \o parts[i]]

\* TextParts without the conversion to hex
TextPartsDecimal(decimals, version) ==
    [i \in DOMAIN decimals |-> ToDigits(decimals[i], 10)]

\* line 195: decimal for IPv4, hex for IPv6
TextParts(decimals, version) ==
    [i \in DOMAIN decimals |-> ToDigits(decimals[i], IF version = 6 THEN 16 ELSE 10)]

\* stringifyParts with the 'short' notation also when no mode is given
stringifyPartsShortByDefault(parts, version, delimiter, width, suffix, options) ==
    IF options.mode # "long" /\ version = 6
    THEN Str(modCase(ShortForm(parts) \o suffix, options.capitalize))
    ELSE IF options.mode = "long"
    THEN IF \E i \in DOMAIN parts : Len(parts[i]) > width
         THEN Thrown("RangeError")
         ELSE Str(modCase(Join(Padded(parts, width), delimiter) \o suffix,
                          options.capitalize))
    ELSE Str(modCase(Join(parts, delimiter) \o suffix, options.capitalize))

\* lines 197-217: parts are the limbs as texts
stringifyParts(parts, version, delimiter, width, suffix, options) ==
    IF options.mode = "short" /\ version = 6
    THEN Str(modCase(ShortForm(parts) \o suffix, options.capitalize))
    ELSE IF options.mode = "long"
    THEN IF \E i \in DOMAIN parts : Len(parts[i]) > width
         THEN Thrown("RangeError")
         ELSE Str(modCase(Join(Padded(parts, width), delimiter) \o suffix,
                          options.capitalize))
    ELSE Str(modCase(Join(parts, delimiter) \o suffix, options.capitalize))

\* lines 190-196
stringifyVersion(decimals, version, suffix, options) ==
    stringifyParts(TextParts(decimals, version), version,
                   IF version = 4 THEN <<".">> ELSE <<":">>,
                   IF version = 4 THEN 3 ELSE 4, suffix, options)

\* IPBase.stringify(decimals, suffix, options)
stringify(decimals, suffix, options) ==
    stringifyVersion(decimals, IF Len(decimals) = 4 THEN 4 ELSE 6, suffix, options)

\* a ConditionPredicate, by name; "none" is an omitted predicate
ConditionPredicates == {"none", "v4", "v6", "cidr", "v4cidr", "v6cidr"}

\* conditionPredicate && !conditionPredicate(version, isCidr)
Rejects(conditionPredicate, version, isCidr) ==
    CASE conditionPredicate = "none" -> FALSE
      [] conditionPredicate = "v4" -> ~(version = 4)
      [] conditionPredicate = "v6" -> ~(version = 6)
      [] conditionPredicate = "cidr" -> ~isCidr
      [] conditionPredicate = "v4cidr" -> ~(version = 4 /\ isCidr)
      [] conditionPredicate = "v6cidr" -> ~(version = 6 /\ isCidr)

\* '/' + bitLen
Slash(n) == <<"/">> \o ToDigits(n, 10)

\* stringifyParsed that never asks the condition predicate
stringifyParsedUnconditional(p, options, conditionPredicate) ==
    IF p = Null THEN Null
    ELSE stringify(parseRange(p.parts, p.bitLen).first,
                   IF p.bitLen # <<>> THEN Slash(p.bitLen[1]) ELSE <<>>, options)

\* lines 244-253: p is what parse returned
stringifyParsed(p, options, conditionPredicate) ==
    IF p = Null THEN Null
    ELSE IF Rejects(conditionPredicate, IF Len(p.parts) = 4 THEN 4 ELSE 6, p.bitLen # <<>>)
    THEN Null
    ELSE stringify(parseRange(p.parts, p.bitLen).first,
                   IF p.bitLen # <<>> THEN Slash(p.bitLen[1]) ELSE <<>>, options)

\* IPBase.parseAndStringify(ipStr, options, conditionPredicate)
parseAndStringify(ipStr, options, conditionPredicate) ==
    stringifyParsed(parse(ipStr, Undefined), options, conditionPredicate)

\* new IP(range), lines 835-861
IPInstance(range) ==
    [type |-> "IP", first |-> range.first, last |-> range.last,
     bitLen |-> range.bitLen, isCidr |-> range.isCidr]

\* getProperties copying first where the copy of last belongs
getPropertiesFirstTwice(ip) == RangeObject(ip.first, ip.first, ip.bitLen, ip.isCidr)

\* IP.prototype.getProperties
getProperties(ip) == RangeObject(ip.first, ip.last, ip.bitLen, ip.isCidr)

\* lines 303-307: p is what parse returned
rangeOfParsed(p) == IF p = Null THEN Null ELSE parseRange(p.parts, p.bitLen)

\* IPBase.getRangeObject(ip)
getRangeObject(ip) ==
    IF ip.type = "IP" THEN getProperties(ip) ELSE rangeOfParsed(parse(ip, Undefined))

\* Includes without the comparison of the last addresses
IncludesFirstOnly(broader, narrower) ==
    \A i \in DOMAIN broader.first : broader.first[i] <= narrower.first[i]

\* Includes without the comparison of the first addresses
IncludesLastOnly(broader, narrower) ==
    \A i \in DOMAIN broader.first : narrower.last[i] <= broader.last[i]

\* lines 284-289
Includes(broader, narrower) ==
    \A i \in DOMAIN broader.first : /\ broader.first[i] <= narrower.first[i]
                                    /\ narrower.last[i] <= broader.last[i]

\* lines 267-289: range2 is what getRangeObject returned
compareWith(range1, range2, comparator) ==
    IF range2 = Null THEN Null
    ELSE IF ~(/\ Len(range1.last) = Len(range1.first)
              /\ Len(range2.first) = Len(range1.first)
              /\ Len(range2.last) = Len(range1.first))
    THEN Bool(FALSE)
    ELSE IF comparator = "<" THEN Bool(Includes(range2, range1))
    ELSE IF comparator = ">" THEN Bool(Includes(range1, range2))
    ELSE Thrown("Error")

\* IPBase.compareRanges(ip1, ip2, comparator)
compareRanges(ip1, ip2, comparator) == compareWith(ip1, getRangeObject(ip2), comparator)

\* equalTo without the comparison of the numbers of limbs; a limb that ip2
\* lacks is undefined and equals none
equalToAnyLength(ip1, ip2) ==
    IF ip2 = Null THEN Null
    ELSE IF ip1.bitLen # ip2.bitLen THEN Bool(FALSE)
    ELSE Bool(\A i \in DOMAIN ip1.first :
                  i \in DOMAIN ip2.first /\ ip1.first[i] = ip2.first[i])

\* equalTo without the comparison of the bit lengths
equalToAnyBitLen(ip1, ip2) ==
    IF ip2 = Null THEN Null
    ELSE IF Len(ip1.first) # Len(ip2.first) THEN Bool(FALSE)
    ELSE Bool(\A i \in DOMAIN ip1.first : ip1.first[i] = ip2.first[i])

\* lines 321-328: ip2 is what getRangeObject returned
equalTo(ip1, ip2) ==
    IF ip2 = Null THEN Null
    ELSE IF Len(ip1.first) # Len(ip2.first) \/ ip1.bitLen # ip2.bitLen THEN Bool(FALSE)
    ELSE Bool(\A i \in DOMAIN ip1.first : ip1.first[i] = ip2.first[i])

\* IPBase.checkEquality(ipObj, ipStr)
checkEquality(ipObj, ipStr) == equalTo(ipObj, getRangeObject(ipStr))

-----------------------------------------------------------------------------
(* IPUtil *)

sanitize(ipStr, capitalize, conditionPredicate) ==
    parseAndStringify(ipStr, Options("unset", capitalize), conditionPredicate)

abbreviate(ipStr, capitalize, conditionPredicate) ==
    parseAndStringify(ipStr, Options("short", capitalize), conditionPredicate)

lengthen(ipStr, capitalize, conditionPredicate) ==
    parseAndStringify(ipStr, Options("long", capitalize), conditionPredicate)

\* lines 451-454: the corrected CIDR if first differs from the parts given
corrected(parts, first, bitLen, options) ==
    IF first # parts THEN stringify(first, Slash(bitLen), options) ELSE Bool(TRUE)

\* lines 438-456: p is what parse returned
validateParsed(p, allowCidr, conditionPredicate, options) ==
    IF p = Null THEN Bool(FALSE)
    ELSE IF allowCidr = "false" /\ p.bitLen # <<>> THEN Bool(FALSE)
    ELSE IF Rejects(conditionPredicate, IF Len(p.parts) = 4 THEN 4 ELSE 6, p.bitLen # <<>>)
    THEN Bool(FALSE)
    ELSE IF allowCidr = "strict" /\ p.bitLen # <<>>
    THEN corrected(p.parts, parseRange(p.parts, p.bitLen).first, p.bitLen[1], options)
    ELSE Bool(TRUE)

\* IPUtil.validate(ipStr, allowCidr, conditionPredicate, options);
\* allowCidr is "false", "true" or "strict"
validate(ipStr, allowCidr, conditionPredicate, options) ==
    validateParsed(parse(ipStr, Undefined), allowCidr, conditionPredicate, options)

\* lines 571-635: any mode but 'strict' validates with allowCidr true
CidrMode(mode) == IF mode # "strict" THEN "true" ELSE "strict"

isIP(ipStr, allowCidr, options) == validate(ipStr, allowCidr, "none", options)
isIPv4(ipStr, allowCidr, options) == validate(ipStr, allowCidr, "v4", options)
isIPv6(ipStr, allowCidr, options) == validate(ipStr, allowCidr, "v6", options)
isCIDR(ipStr, mode, options) == validate(ipStr, CidrMode(mode), "cidr", options)
isIPv4CIDR(ipStr, mode, options) == validate(ipStr, CidrMode(mode), "v4cidr", options)
isIPv6CIDR(ipStr, mode, options) == validate(ipStr, CidrMode(mode), "v6cidr", options)

\* lines 645-648, 695-698: ip is what getRangeObject returned for the first operand
compareFrom(ip, other, comparator) ==
    IF ip = Null THEN Null ELSE compareRanges(ip, other, comparator)

\* IPUtil.isInRange(ipStr, cidrStr)
isInRange(ipStr, cidrStr) == compareFrom(getRangeObject(ipStr), cidrStr, "<")

\* contains that takes a range to contain only the ranges that differ from it
containsProper(cidrStr, ipStr) ==
    IF getRangeObject(cidrStr) # Null
           /\ checkEquality(getRangeObject(cidrStr), ipStr) = Bool(TRUE)
    THEN Bool(FALSE)
    ELSE compareFrom(getRangeObject(cidrStr), ipStr, ">")

\* IPUtil.contains(cidrStr, ipStr)
contains(cidrStr, ipStr) == compareFrom(getRangeObject(cidrStr), ipStr, ">")

\* lines 745-748: ip1 is what getRangeObject returned for the first operand
equalsFrom(ip1, ipStr2) == IF ip1 = Null THEN Null ELSE checkEquality(ip1, ipStr2)

\* IPUtil.equals(ipStr1, ipStr2)
equals(ipStr1, ipStr2) == equalsFrom(getRangeObject(ipStr1), ipStr2)

\* an array of the given items
Arr(items) == [type |-> "array", items |-> items]

\* IsEmptyOrNoArray without the test of the length
IsNoArray(arr) == arr.type # "array"

\* !Array.isArray(arr) || !arr.length
IsEmptyOrNoArray(arr) == arr.type # "array" \/ Len(arr.items) = 0

\* !!result of the comparison of ip with each item; kind is the comparator
\* '<' or '>' of compareRanges, or "=" for checkEquality
eachResult(ip, items, kind) ==
    [i \in DOMAIN items |->
        (IF kind = "=" THEN checkEquality(ip, items[i])
         ELSE compareRanges(ip, items[i], kind)) = Bool(TRUE)]

\* findIndex returning the index of the last match
findLastIndex(arr, flags) ==
    IF arr.type # "array" THEN Thrown("TypeError")
    ELSE Num(Last({i \in DOMAIN flags : flags[i]}) - 1)

\* arr.findIndex(callback), flags the callback's result for each item; a
\* value that is no array has no findIndex, and the call is a TypeError
findIndex(arr, flags) ==
    IF arr.type # "array" THEN Thrown("TypeError")
    ELSE Num(First({i \in DOMAIN flags : flags[i]}) - 1)

\* arr.every(callback), flags the callback's result for each item
every(flags) == Bool(\A i \in DOMAIN flags : flags[i])

\* lines 653-656, 711-714, 761-764: ip is what getRangeObject returned
anyFrom(ip, arr, kind) ==
    IF ip = Null THEN Null ELSE findIndex(arr, eachResult(ip, arr.items, kind))

\* lines 680-684, 730-734, 780-784: ip is what getRangeObject returned
allFrom(ip, arr, kind) ==
    IF ip = Null THEN Null ELSE every(eachResult(ip, arr.items, kind))

\* IPUtil.isInAnyRange(ipStr, cidrArr)
isInAnyRange(ipStr, cidrArr) == anyFrom(getRangeObject(ipStr), cidrArr, "<")

\* IPUtil.isInAllRanges(ipStr, cidrArr)
isInAllRanges(ipStr, cidrArr) ==
    IF IsEmptyOrNoArray(cidrArr) THEN Null
    ELSE allFrom(getRangeObject(ipStr), cidrArr, "<")

\* IPUtil.containsAny(cidrStr, ipArr)
containsAny(cidrStr, ipArr) == anyFrom(getRangeObject(cidrStr), ipArr, ">")

\* IPUtil.containsAll(cidrStr, ipArr)
containsAll(cidrStr, ipArr) ==
    IF IsEmptyOrNoArray(ipArr) THEN Null
    ELSE allFrom(getRangeObject(cidrStr), ipArr, ">")

\* IPUtil.equalsAny(ipStr, ipArr)
equalsAny(ipStr, ipArr) == anyFrom(getRangeObject(ipStr), ipArr, "=")

\* IPUtil.equalsAll(ipStr, ipArr)
equalsAll(ipStr, ipArr) ==
    IF IsEmptyOrNoArray(ipArr) THEN Null
    ELSE allFrom(getRangeObject(ipStr), ipArr, "=")

-----------------------------------------------------------------------------
(* IP *)

\* instanceOfParsed without the fallback for a null parse: reading the parts
\* of null is a TypeError
instanceOfParsedUnguarded(p) ==
    IF p = Null THEN Thrown("TypeError") ELSE IPInstance(parseRange(p.parts, p.bitLen))

\* lines 803-806: p is what parse returned
instanceOfParsed(p) == IF p = Null THEN Null ELSE IPInstance(parseRange(p.parts, p.bitLen))

\* IP.newFromText(ipStr)
newFromText(ipStr) == instanceOfParsed(parse(ipStr, Undefined))

\* lines 824-827: p is what parse returned
instanceOfRange(p) ==
    IF p = Null THEN Null
    ELSE IF p.bitLen = <<>> THEN Null
    ELSE IPInstance(parseRange(p.parts, p.bitLen))

\* newFromRange that looks at the text before it looks at the range
newFromRangeTextFirst(ipStr, range) ==
    IF parse(ipStr, Undefined) = Null THEN Null
    ELSE IF range.type # "number" THEN Thrown("TypeError")
    ELSE instanceOfRange(parse(ipStr, range))

\* IP.newFromRange(ipStr, range)
newFromRange(ipStr, range) ==
    IF range.type # "number" THEN Thrown("TypeError")
    ELSE instanceOfRange(parse(ipStr, range))

\* IP_stringify that writes the bit length of every instance
IP_stringifyWithLength(ip, options) == stringify(ip.first, Slash(ip.bitLen), options)

\* IP.prototype.stringify(options); ip is an instance
IP_stringify(ip, options) ==
    stringify(ip.first, IF ip.isCidr THEN Slash(ip.bitLen) ELSE <<>>, options)

\* IP.newFromText(ipStr).stringify(options): a TypeError when there is no instance
stringifyOf(ip, options) ==
    IF ip.type # "IP" THEN Thrown("TypeError") ELSE IP_stringify(ip, options)

\* IP.prototype.isInRange(cidrStr)
IP_isInRange(ip, cidrStr) == compareRanges(getProperties(ip), cidrStr, "<")

\* IP.prototype.contains(ipStr)
IP_contains(ip, ipStr) == compareRanges(getProperties(ip), ipStr, ">")

\* IP.prototype.equals(ipStr)
IP_equals(ip, ipStr) == checkEquality(getProperties(ip), ipStr)

\* IP.prototype.isInAnyRange(cidrArr)
IP_isInAnyRange(ip, cidrArr) ==
    findIndex(cidrArr, eachResult(getProperties(ip), cidrArr.items, "<"))

\* IP.prototype.containsAny(ipArr)
IP_containsAny(ip, ipArr) ==
    findIndex(ipArr, eachResult(getProperties(ip), ipArr.items, ">"))

\* IP.prototype.equalsAny(ipArr)
IP_equalsAny(ip, ipArr) ==
    findIndex(ipArr, eachResult(getProperties(ip), ipArr.items, "="))

\* IP.prototype.isInAllRanges(cidrArr)
IP_isInAllRanges(ip, cidrArr) ==
    IF IsEmptyOrNoArray(cidrArr) THEN Null
    ELSE every(eachResult(getProperties(ip), cidrArr.items, "<"))

\* IP.prototype.containsAll(ipArr)
IP_containsAll(ip, ipArr) ==
    IF IsEmptyOrNoArray(ipArr) THEN Null
    ELSE every(eachResult(getProperties(ip), ipArr.items, ">"))

\* IP.prototype.equalsAll(ipArr)
IP_equalsAll(ip, ipArr) ==
    IF IsEmptyOrNoArray(ipArr) THEN Null
    ELSE every(eachResult(getProperties(ip), ipArr.items, "="))

\* new IPBase(override), lines 20-24
IPBase_constructor(override) ==
    IF override # Bool(TRUE) THEN Thrown("Error") ELSE [type |-> "IPBase"]

\* new IPUtil(), lines 345-348: super(true), then the throw
IPUtil_constructor ==
    IF IPBase_constructor(Bool(TRUE)).type = "throw" THEN IPBase_constructor(Bool(TRUE))
    ELSE Thrown("Error")

\* IP.prototype.isCIDR()
IP_isCIDR(ip) == Bool(ip.isCidr)

\* IP.prototype.getBitLength()
IP_getBitLength(ip) == Num(ip.bitLen)

\* endpoint that is made a CIDR
endpointCidr(limbs) ==
    IPInstance(RangeObject(limbs, limbs, IF Len(limbs) = 4 THEN 32 ELSE 128, TRUE))

\* lines 1012-1021: an end of the range as an instance of its own
endpoint(limbs) ==
    IPInstance(RangeObject(limbs, limbs, IF Len(limbs) = 4 THEN 32 ELSE 128, FALSE))

\* IP.prototype.getRange(getObject, options)
IP_getRange(ip, getObject, options) ==
    IF ~getObject
    THEN [type |-> "Range", bitLen |-> ip.bitLen,
          cidr |-> Str(stringify(ip.first, <<>>, options).chars \o Slash(ip.bitLen)),
          first |-> stringify(ip.first, <<>>, options),
          last |-> stringify(ip.last, <<>>, options)]
    ELSE [type |-> "Range", bitLen |-> ip.bitLen,
          cidr |-> stringify(ip.first, Slash(ip.bitLen), options),
          first |-> endpoint(ip.first),
          last |-> endpoint(ip.last)]

-----------------------------------------------------------------------------
(* Inputs: the texts and values the operations are called on *)

\* the most colon-separated pieces of a generated IPv6 text
MaxGroups6 == 9
\* the most dot-separated pieces of a generated IPv4 text
MaxGroups4 == 5
\* generated '/N' suffixes run over 0..MaxPrefix4 on IPv4 texts
MaxPrefix4 == 34
\* generated '/N' suffixes run over 0..MaxPrefix6 on IPv6 texts
MaxPrefix6 == 130

\* the decimal digit of i, as a one-character text
Digit(i) == <<DecDigits[(i % 10) + 1]>>

\* every way to leave pieces empty: piece i is the digit i or the empty text
Structures(maxGroups, sep) ==
    UNION {{Join([i \in 1..n |-> IF filled[i] THEN Digit(i) ELSE <<>>], <<sep>>) :
                filled \in [1..n -> BOOLEAN]} : n \in 1..maxGroups}

\* base with piece i replaced by tok
WithPiece(base, i, tok, sep) == Join([base EXCEPT ![i] = tok], <<sep>>)

Tokens4 ==
    {<<"0">>, <<"0", "0">>, <<"0", "0", "0">>, <<"0", "0", "0", "0">>, <<"0", "0", "1">>,
     <<"2", "5", "5">>, <<"2", "5", "6">>, <<"9", "9", "9">>, <<"0", "2", "5", "5">>,
     <<"1", "0", "0", "0">>, <<"a">>, <<"-", "1">>, <<"1", " ">>, <<"FW1">>}

Tokens6 ==
    {<<"0">>, <<"1", "0">>, <<"0", "0", "0", "1">>, <<"f", "f", "f", "f">>,
     <<"F", "d", "1", "2">>, <<"0", "0", "0", "0", "1">>, <<"1", "0", "0", "0", "0">>,
     <<"g">>, <<"1", "g">>, <<"FWA">>, <<"1", "FWA">>, <<"1", ".", "2">>, <<"-", "1">>}

Base4 == <<<<"1", "9", "2">>, <<"1", "6", "8">>, <<"2", "5", "5">>, <<"1">>>>
Base6 == [i \in 1..8 |-> Digit(i)]
Text4 == Join(Base4, <<".">>)
Text6 == Join(Base6, <<":">>)
\* fd12:3456:789a:1::1
TextFd == <<"f", "d", "1", "2", ":", "3", "4", "5", "6", ":", "7", "8", "9", "a", ":",
            "1", ":", ":", "1">>
\* ffff:ffff:ffff:ffff:ffff:ffff:ffff:ffff
TextOnes == Join([i \in 1..8 |-> <<"f", "f", "f", "f">>], <<":">>)

Contents4 == {WithPiece(Base4, i, t, ".") : i \in 1..4, t \in Tokens4}
Contents6 ==
    {WithPiece(Base6, i, t, ":") : i \in 1..8, t \in Tokens6}
    \cup {<<":", ":">> \o t : t \in Tokens6}
    \cup {t \o <<":", ":">> : t \in Tokens6}
    \cup {<<"1", ":", ":">> \o t \o <<":", "3">> : t \in Tokens6}

\* '/N' for every N up to the bound, and suffixes that are not '/digits'
Prefixed(text, maxPrefix) == {text \o <<"/">> \o ToDigits(n, 10) : n \in 0..maxPrefix}
OddSuffixes ==
    {<<"/">>, <<"/", "-", "1">>, <<"/", "1", ".", "5">>, <<"/", "0", "2", "4">>,
     <<"/", "0", "0">>, <<"/", "0", "1", "2", "8">>, <<"/", "/", "8">>,
     <<"/", "8", "/", "8">>, <<"/", " ", "8">>, <<"/", "8", " ">>, <<"/", "a">>,
     <<"/", "1", "0", "0", "0">>, <<"/", "FW1">>}

\* whitespace and bidirectional marks around and inside a text
Decorated(text) ==
    {<<" ">> \o text, text \o <<"\n", " ">>, <<"LRM">> \o text \o <<"RLO">>,
     <<"\t", "RLM">> \o text, SubSeq(text, 1, 2) \o <<"PDF", "LRE">> \o SubSeq(text, 3, Len(text)),
     SubSeq(text, 1, 2) \o <<" ">> \o SubSeq(text, 3, Len(text)),
     <<"NBSP">> \o text \o <<"RLE", "LRO">>,
     <<"LRM", " ">> \o text \o <<" ", "RLM", "\n">>,
     text \o <<"\r", "\n">>, <<"\f", "", "BOM">> \o text \o <<"LS", "U2029", "IDSP">>,
     SubSeq(text, 1, 1) \o <<"RLE">> \o SubSeq(text, 2, 5) \o <<"PDF", "LRM">>
         \o SubSeq(text, 6, Len(text))}

Texts ==
    Structures(MaxGroups6, ":") \cup Structures(MaxGroups4, ".")
    \cup Contents4 \cup Contents6
    \cup Prefixed(Text4, MaxPrefix4) \cup Prefixed(Text6, MaxPrefix6)
    \cup Prefixed(TextFd, MaxPrefix6) \cup Prefixed(TextOnes, MaxPrefix6)
    \cup {t \o x : t \in {Text4, TextFd}, x \in OddSuffixes}
    \cup Decorated(Text4) \cup Decorated(TextFd \o <<"/", "6", "4">>)
    \cup {<<>>, <<" ">>, <<"g">>}

\* values that are not strings
NonStrings == {Undefined, Null, Num(1), [type |-> "object"], Bool(TRUE)}

Inputs == {Str(t) : t \in Texts} \cup NonStrings

\* the range argument of IP.newFromRange
Ranges ==
    {Num(n) : n \in {-1, 0, 8, 24, 32, 33, 64, 128, 129}}
    \cup {Half(8), Half(-1), NaN, Undefined, Null, Str(<<"2", "4">>)}

\* the second operand of the comparisons
\* 10.0.0.0/8, ::1, an invalid text, and a value that is not a string
Others ==
    {Str(<<"1", "9", "2", ".", "0", ".", "0", ".", "0", "/", "8">>),
     Str(<<":", ":", "1">>), Str(<<"1", ".", "2">>), Undefined}

-----------------------------------------------------------------------------
(* The library under call: one action per public operation.  arg is the    *)
(* first argument, fn the operation called with its other arguments, out   *)
(* the value it returned (a Thrown when it threw).                         *)

Init ==
    /\ arg \in Inputs
    /\ fn = <<"init">>
    /\ out = Undefined

Parse ==
    /\ fn = <<"init">>
    /\ fn' = <<"parse">>
    /\ out' = parse(arg, Undefined)
    /\ UNCHANGED arg

NewFromText ==
    /\ fn = <<"init">>
    /\ fn' = <<"newFromText">>
    /\ out' = newFromText(arg)
    /\ UNCHANGED arg

NewFromRange ==
    \E r \in Ranges :
        /\ fn = <<"init">>
        /\ fn' = <<"newFromRange", r>>
        /\ out' = newFromRange(arg, r)
        /\ UNCHANGED arg

Sanitize ==
    \E c \in BOOLEAN :
        /\ fn = <<"init">>
        /\ fn' = <<"sanitize", c>>
        /\ out' = sanitize(arg, c, "none")
        /\ UNCHANGED arg

Abbreviate ==
    \E c \in BOOLEAN :
        /\ fn = <<"init">>
        /\ fn' = <<"abbreviate", c>>
        /\ out' = abbreviate(arg, c, "none")
        /\ UNCHANGED arg

Lengthen ==
    \E c \in BOOLEAN :
        /\ fn = <<"init">>
        /\ fn' = <<"lengthen", c>>
        /\ out' = lengthen(arg, c, "none")
        /\ UNCHANGED arg

\* IP.newFromText(arg).stringify({mode}); with no instance the call on null
\* is a TypeError
Stringify ==
    \E m \in {"unset", "short", "long"} :
        /\ fn = <<"init">>
        /\ fn' = <<"stringify", m>>
        /\ out' = stringifyOf(newFromText(arg), Options(m, FALSE))
        /\ UNCHANGED arg

AllowCidr == {"false", "true", "strict"}

IsIP ==
    \E a \in AllowCidr, m \in {"unset", "short", "long"} :
        /\ fn = <<"init">>
        /\ \/ fn' = <<"isIP", a, m>> /\ out' = isIP(arg, a, Options(m, FALSE))
           \/ fn' = <<"isIPv4", a, m>> /\ out' = isIPv4(arg, a, Options(m, FALSE))
           \/ fn' = <<"isIPv6", a, m>> /\ out' = isIPv6(arg, a, Options(m, FALSE))
        /\ UNCHANGED arg

IsCIDR ==
    \E m \in {"undefined", "strict"} :
        /\ fn = <<"init">>
        /\ \/ fn' = <<"isCIDR", m>> /\ out' = isCIDR(arg, m, Options("unset", FALSE))
           \/ fn' = <<"isIPv4CIDR", m>> /\ out' = isIPv4CIDR(arg, m, Options("unset", FALSE))
           \/ fn' = <<"isIPv6CIDR", m>> /\ out' = isIPv6CIDR(arg, m, Options("unset", FALSE))
        /\ UNCHANGED arg

\* the comparisons, arg the first operand (left) or the second (right)
Compare ==
    \E o \in Others :
        /\ fn = <<"init">>
        /\ \/ fn' = <<"contains", "left", o>> /\ out' = contains(arg, o)
           \/ fn' = <<"contains", "right", o>> /\ out' = contains(o, arg)
           \/ fn' = <<"isInRange", "left", o>> /\ out' = isInRange(arg, o)
           \/ fn' = <<"isInRange", "right", o>> /\ out' = isInRange(o, arg)
           \/ fn' = <<"equals", "left", o>> /\ out' = equals(arg, o)
           \/ fn' = <<"equals", "right", o>> /\ out' = equals(o, arg)
        /\ UNCHANGED arg

Next ==
    \/ Parse
    \/ NewFromText
    \/ NewFromRange
    \/ Sanitize
    \/ Abbreviate
    \/ Lengthen
    \/ Stringify
    \/ IsIP
    \/ IsCIDR
    \/ Compare

Spec == Init /\ [][Next]_vars

-----------------------------------------------------------------------------
(* IPBase.parseRange on its own: arg is a Parsed, out the RangeObject      *)

\* how many families of limb values the generated arrays draw on
MaxVariant == 4

\* limb i of the array of family v, for limbs of the given width in bits
Limb(v, i, width) ==
    CASE v = 1 -> 1
      [] v = 2 -> i
      [] v = 3 -> 16 * i
      [] v = 4 -> 2 ^ width - 1
      [] OTHER -> (37 * v + 73 * i) % (2 ^ width)

\* arrays of len limbs: the limbs marked in zero are 0, the others of family v
LimbArrays(len, width) ==
    {[i \in 1..len |-> IF zero[i] THEN 0 ELSE Limb(v, i, width)] :
        zero \in [1..len -> BOOLEAN], v \in 1..MaxVariant}

\* c0a8:ff01 as IPv4, fd12:3456:789a:1::1, and limbs of alternating bits
RangeParts ==
    {<<192, 168, 255, 1>>, <<170, 85, 170, 85>>, <<10, 0, 0, 0>>,
     <<64786, 13398, 30874, 1, 0, 0, 0, 1>>,
     <<43690, 21845, 43690, 21845, 43690, 21845, 43690, 21845>>}
    \cup LimbArrays(4, 8)
    \cup {[i \in 1..8 |-> Limb(v, i, 16)] : v \in 1..MaxVariant}

\* null, and every bit length of the family
BitLens(parts) == {<<>>} \cup {<<p>> : p \in 0..(Len(parts) * Len(parts) * 2)}

InitRange ==
    /\ arg \in UNION {{Parsed(parts, bitLen) : bitLen \in BitLens(parts)} :
                         parts \in RangeParts}
    /\ fn = <<"init">>
    /\ out = Undefined

ParseRange ==
    /\ fn = <<"init">>
    /\ fn' = <<"parseRange">>
    /\ out' = parseRange(arg.parts, arg.bitLen)
    /\ UNCHANGED arg

NextRange == ParseRange

SpecRange == InitRange /\ [][NextRange]_vars

-----------------------------------------------------------------------------
(* IPBase.stringify on its own: arg holds the limbs and the suffix, out    *)
(* the text                                                                *)

\* no suffix, and '/24'
Suffixes == {<<>>, <<"/", "2", "4">>}

\* 192.168.0.1, fd12:3456:789a:1:0:0:0:0, 1:10:0:5:6:7:8:9
ExampleLimbs ==
    {<<192, 168, 0, 1>>, <<64786, 13398, 30874, 1, 0, 0, 0, 0>>,
     <<1, 16, 0, 5, 6, 7, 8, 9>>}

InitStringify ==
    /\ arg \in [decimals : LimbArrays(4, 8) \cup LimbArrays(8, 16) \cup ExampleLimbs,
                suffix : Suffixes]
    /\ fn = <<"init">>
    /\ out = Undefined

StringifyLimbs ==
    \E m \in {"unset", "short", "long"}, c \in BOOLEAN :
        /\ fn = <<"init">>
        /\ fn' = <<"stringify", m, c>>
        /\ out' = stringify(arg.decimals, arg.suffix, Options(m, c))
        /\ UNCHANGED arg

NextStringify == StringifyLimbs

SpecStringify == InitStringify /\ [][NextStringify]_vars

-----------------------------------------------------------------------------
(* The queries over a few addresses and ranges: arg is the address the     *)
(* query is made on, fn the query with its form (of IPUtil on the text, or *)
(* of the IP instance made from the text) and its other operand, out the   *)
(* value returned                                                          *)

\* IPv4 addresses and ranges
TextsV4 ==
    {
     \* 10.0.0.0/8
     <<"1", "0", ".", "0", ".", "0", ".", "0", "/", "8">>,
     \* 10.1.2.3
     <<"1", "0", ".", "1", ".", "2", ".", "3">>,
     \* 11.0.0.0
     <<"1", "1", ".", "0", ".", "0", ".", "0">>,
     \* 10.0.0.0/7
     <<"1", "0", ".", "0", ".", "0", ".", "0", "/", "7">>,
     \* 192.168.1.1
     <<"1", "9", "2", ".", "1", "6", "8", ".", "1", ".", "1">>,
     \* 192.168.1.1/32
     <<"1", "9", "2", ".", "1", "6", "8", ".", "1", ".", "1", "/", "3", "2">>,
     \* 192.168.001.001
     <<"1", "9", "2", ".", "1", "6", "8", ".", "0", "0", "1", ".", "0", "0", "1">>,
     \* 192.168.1.77/24
     <<"1", "9", "2", ".", "1", "6", "8", ".", "1", ".", "7", "7", "/", "2", "4">>,
     \* 192.168.1.0/24
     <<"1", "9", "2", ".", "1", "6", "8", ".", "1", ".", "0", "/", "2", "4">>,
     \* 0.0.0.0/0
     <<"0", ".", "0", ".", "0", ".", "0", "/", "0">>
    }

\* IPv6 addresses and ranges
TextsV6 ==
    {
     \* ::1
     <<":", ":", "1">>,
     \* ::1/128
     <<":", ":", "1", "/", "1", "2", "8">>,
     \* 0:0:0:0:0:0:0:1
     <<"0", ":", "0", ":", "0", ":", "0", ":", "0", ":", "0", ":", "0", ":", "1">>,
     \* fd12:3456:789a:1::1/64
     <<"f", "d", "1", "2", ":", "3", "4", "5", "6", ":", "7", "8", "9", "a", ":", "1", ":", ":", "1", "/", "6", "4">>,
     \* fd12:3456:789a:1:0:0:0:0/64
     <<"f", "d", "1", "2", ":", "3", "4", "5", "6", ":", "7", "8", "9", "a", ":", "1", ":", "0", ":", "0", ":", "0", ":", "0", "/", "6", "4">>,
     \* fd12:3456:789a:1::ffff
     <<"f", "d", "1", "2", ":", "3", "4", "5", "6", ":", "7", "8", "9", "a", ":", "1", ":", ":", "f", "f", "f", "f">>,
     \* ::/0
     <<":", ":", "/", "0">>
    }

\* texts that are no address
TextsInvalid ==
    {
     \* 1.2
     <<"1", ".", "2">>,
     \* 256.1.1.1
     <<"2", "5", "6", ".", "1", ".", "1", ".", "1">>,
     \* 10.0.0.0/33
     <<"1", "0", ".", "0", ".", "0", ".", "0", "/", "3", "3">>,
     \* (the empty text)
     <<>>,
     \* 192.168.1.1/x
     <<"1", "9", "2", ".", "1", "6", "8", ".", "1", ".", "1", "/", "x">>,
     \* 192.168.1.1/
     <<"1", "9", "2", ".", "1", "6", "8", ".", "1", ".", "1", "/">>,
     \* 10.0.0.0/8/8
     <<"1", "0", ".", "0", ".", "0", ".", "0", "/", "8", "/", "8">>,
     \* 10.0.0.0 /8
     <<"1", "0", ".", "0", ".", "0", ".", "0", " ", "/", "8">>
    }

\* the values a query is made on
Primaries ==
    {Str(t) : t \in TextsV4 \cup TextsV6 \cup TextsInvalid} \cup {Undefined, Num(1)}

\* the IP instances of 192.168.1.1, 10.0.0.0/8, ::1 and fd12:3456:789a:1::/64
Instances ==
    {IPInstance(RangeObject(<<192, 168, 1, 1>>, <<192, 168, 1, 1>>, 32, FALSE)),
     IPInstance(RangeObject(<<10, 0, 0, 0>>, <<10, 255, 255, 255>>, 8, TRUE)),
     IPInstance(RangeObject(<<0, 0, 0, 0, 0, 0, 0, 1>>, <<0, 0, 0, 0, 0, 0, 0, 1>>, 128, FALSE)),
     IPInstance(RangeObject(<<64786, 13398, 30874, 1, 0, 0, 0, 0>>,
                            <<64786, 13398, 30874, 1, 65535, 65535, 65535, 65535>>,
                            64, TRUE))}

\* the other operand of a comparison: a text, a value that is no text, an instance
Operands == Primaries \cup Instances

\* the most items of a generated array
MaxItems == 2

\* the items of the generated arrays: 10.0.0.0/8, ::1, a text that is no
\* address, the instance of 192.168.1.1 and undefined
Items ==
    {Str(<<"1", "0", ".", "0", ".", "0", ".", "0", "/", "8">>),
     Str(<<":", ":", "1">>), Str(<<"1", ".", "2">>),
     IPInstance(RangeObject(<<192, 168, 1, 1>>, <<192, 168, 1, 1>>, 32, FALSE)),
     Undefined}

\* the arrays of up to MaxItems items, and values that are no array
Collections ==
    UNION {{Arr(items) : items \in [1..n -> Items]} : n \in 0..MaxItems}
    \cup {Undefined, Null, Str(<<":", ":", "1">>)}

\* the query of IPUtil of the given name on a and x
IPUtil_query(name, a, x) ==
    CASE name = "isInRange" -> isInRange(a, x)
      [] name = "contains" -> contains(a, x)
      [] name = "equals" -> equals(a, x)
      [] name = "isInAnyRange" -> isInAnyRange(a, x)
      [] name = "containsAny" -> containsAny(a, x)
      [] name = "equalsAny" -> equalsAny(a, x)
      [] name = "isInAllRanges" -> isInAllRanges(a, x)
      [] name = "containsAll" -> containsAll(a, x)
      [] name = "equalsAll" -> equalsAll(a, x)

\* ip.name(x) for what IP.newFromText returned: with no instance the call on
\* null is a TypeError
IP_query(name, ip, x) ==
    IF ip.type # "IP" THEN Thrown("TypeError")
    ELSE CASE name = "isInRange" -> IP_isInRange(ip, x)
           [] name = "contains" -> IP_contains(ip, x)
           [] name = "equals" -> IP_equals(ip, x)
           [] name = "isInAnyRange" -> IP_isInAnyRange(ip, x)
           [] name = "containsAny" -> IP_containsAny(ip, x)
           [] name = "equalsAny" -> IP_equalsAny(ip, x)
           [] name = "isInAllRanges" -> IP_isInAllRanges(ip, x)
           [] name = "containsAll" -> IP_containsAll(ip, x)
           [] name = "equalsAll" -> IP_equalsAll(ip, x)

SingleQueries == {"isInRange", "contains", "equals"}
AnyQueries == {"isInAnyRange", "containsAny", "equalsAny"}
AllQueries == {"isInAllRanges", "containsAll", "equalsAll"}

\* the formatting operation of IPUtil of the given name
IPUtil_format(name, ipStr, capitalize, conditionPredicate) ==
    CASE name = "sanitize" -> sanitize(ipStr, capitalize, conditionPredicate)
      [] name = "abbreviate" -> abbreviate(ipStr, capitalize, conditionPredicate)
      [] name = "lengthen" -> lengthen(ipStr, capitalize, conditionPredicate)

InitQueries ==
    /\ arg \in Primaries
    /\ fn = <<"init">>
    /\ out = Undefined

\* IPUtil.name(arg, x), or IP.newFromText(arg).name(x), on one operand
QueryOne ==
    \E name \in SingleQueries, x \in Operands :
        /\ fn = <<"init">>
        /\ \/ fn' = <<name, "util", x>> /\ out' = IPUtil_query(name, arg, x)
           \/ fn' = <<name, "instance", x>> /\ out' = IP_query(name, newFromText(arg), x)
        /\ UNCHANGED arg

\* the queries for a match with any item of a collection
QueryAny ==
    \E name \in AnyQueries, x \in Collections :
        /\ fn = <<"init">>
        /\ \/ fn' = <<name, "util", x>> /\ out' = IPUtil_query(name, arg, x)
           \/ fn' = <<name, "instance", x>> /\ out' = IP_query(name, newFromText(arg), x)
        /\ UNCHANGED arg

\* the queries for a match with all items of a collection
QueryAll ==
    \E name \in AllQueries, x \in Collections :
        /\ fn = <<"init">>
        /\ \/ fn' = <<name, "util", x>> /\ out' = IPUtil_query(name, arg, x)
           \/ fn' = <<name, "instance", x>> /\ out' = IP_query(name, newFromText(arg), x)
        /\ UNCHANGED arg

\* IPUtil.sanitize, abbreviate, lengthen with a condition predicate
Format ==
    \E name \in {"sanitize", "abbreviate", "lengthen"}, c \in BOOLEAN,
       cond \in ConditionPredicates :
        /\ fn = <<"init">>
        /\ fn' = <<name, c, cond>>
        /\ out' = IPUtil_format(name, arg, c, cond)
        /\ UNCHANGED arg

\* IP.newFromText(arg), IP.newFromRange(arg, r)
Construct ==
    /\ fn = <<"init">>
    /\ \/ fn' = <<"newFromText">> /\ out' = newFromText(arg)
       \/ \E r \in Ranges : fn' = <<"newFromRange", r>> /\ out' = newFromRange(arg, r)
    /\ UNCHANGED arg

\* new IPBase(override), new IPUtil()
Instantiate ==
    /\ fn = <<"init">>
    /\ \/ \E o \in {Undefined, Bool(TRUE), Bool(FALSE), Num(1), Str(<<"t", "r", "u", "e">>)} :
              fn' = <<"new", "IPBase", o>> /\ out' = IPBase_constructor(o)
       \/ fn' = <<"new", "IPUtil">> /\ out' = IPUtil_constructor
    /\ UNCHANGED arg

NextQueries ==
    \/ QueryOne
    \/ QueryAny
    \/ QueryAll
    \/ Format
    \/ Construct
    \/ Stringify
    \/ Instantiate

SpecQueries == InitQueries /\ [][NextQueries]_vars

-----------------------------------------------------------------------------
(* SpecInstance: one IP instance with its arrays on a heap, the methods called
   on it in any order, and a caller that writes into the arrays it was given *)

\* the most arrays on the heap
MaxArrays == 4

\* the most writes of the caller
MaxWrites == 1

\* lines 128-135, 154-173: the arrays of a range; an address without a prefix
\* has one array as first and as last
rangeArrays(range) == IF range.isCidr THEN <<range.first, range.last>> ELSE <<range.first>>

\* new IP(range), lines 835-861: the instance keeps the arrays of the range;
\* held are the arrays the caller was given, made the values at construction
construct(ip) ==
    [heap |-> rangeArrays(ip), first |-> 1, last |-> IF ip.isCidr THEN 2 ELSE 1,
     bitLen |-> ip.bitLen, isCidr |-> ip.isCidr, held |-> {}, writes |-> 0, made |-> ip]

\* the fields of the instance, with its arrays read from the heap
fields(obj) ==
    IPInstance(RangeObject(obj.heap[obj.first], obj.heap[obj.last], obj.bitLen, obj.isCidr))

\* the arrays returned when nothing is copied
returnedArraysShared(obj) == {obj.first, obj.last}

\* this.first.slice(), this.last.slice(): the two arrays returned are new
returnedArrays(obj) == {Len(obj.heap) + 1, Len(obj.heap) + 2}

\* the heap after the two copies, and the caller holding what was returned
withCopies(obj, returned) ==
    [obj EXCEPT !.heap = @ \o <<obj.heap[obj.first], obj.heap[obj.last]>>,
                !.held = @ \cup returned]

InstanceTexts ==
    {<<"1", "0", ".", "1", ".", "2", ".", "3">>,
     <<"1", "0", ".", "1", ".", "2", ".", "3", "/", "3", "2">>,
     <<"1", "9", "2", ".", "1", "6", "8", ".", "1", ".", "7", "7", "/", "2", "4">>,
     <<":", ":", "1">>,
     <<"f", "d", "1", "2", ":", "3", "4", "5", "6", ":", ":", "1", "/", "4", "0">>}

\* the other operands of the queries: 10.0.0.0/8 and ::1
QueryTexts ==
    {<<"1", "0", ".", "0", ".", "0", ".", "0", "/", "8">>, <<":", ":", "1">>}

\* the state after IP.newFromText, or IP.newFromRange with range 8
InitInstance ==
    /\ arg \in {construct(newFromText(Str(t))) : t \in InstanceTexts}
               \cup {construct(newFromRange(Str(t), Num(8))) : t \in InstanceTexts}
    /\ fn = <<"init">>
    /\ out = Undefined

\* ip.getProperties()
GetProperties ==
    /\ Len(arg.heap) + 2 <= MaxArrays
    /\ fn' = <<"getProperties">>
    /\ out' = getProperties(fields(arg))
    /\ arg' = withCopies(arg, returnedArrays(arg))

\* ip.getRange(false, options): texts are returned
GetRange ==
    \E m \in {"unset", "short", "long"} :
        /\ fn' = <<"getRange", FALSE, m>>
        /\ out' = IP_getRange(fields(arg), FALSE, Options(m, FALSE))
        /\ UNCHANGED arg

\* ip.getRange(true, options): the instances returned keep a copy of first
\* and a copy of last
GetRangeObjects ==
    \E m \in {"unset", "short", "long"} :
        /\ Len(arg.heap) + 2 <= MaxArrays
        /\ fn' = <<"getRange", TRUE, m>>
        /\ out' = IP_getRange(fields(arg), TRUE, Options(m, FALSE))
        /\ arg' = withCopies(arg, {Len(arg.heap) + 1, Len(arg.heap) + 2})

\* ip.stringify(options), ip.getBitLength(), ip.isCIDR()
Read ==
    /\ \/ \E m \in {"unset", "short", "long"} :
              fn' = <<"stringify", m>> /\ out' = IP_stringify(fields(arg), Options(m, FALSE))
       \/ fn' = <<"getBitLength">> /\ out' = IP_getBitLength(fields(arg))
       \/ fn' = <<"isCIDR">> /\ out' = IP_isCIDR(fields(arg))
    /\ UNCHANGED arg

\* a query of the instance on x, and a query of IPUtil with the instance as
\* the other operand
QueryInstance ==
    \E name \in SingleQueries, x \in {Str(t) : t \in QueryTexts} :
        /\ \/ fn' = <<name, "instance", x>> /\ out' = IP_query(name, fields(arg), x)
           \/ fn' = <<name, "operand", x>> /\ out' = IPUtil_query(name, x, fields(arg))
        /\ UNCHANGED arg

\* the caller writes another limb into an array it was given
Mutate ==
    \E a \in arg.held :
        \E i \in DOMAIN arg.heap[a] :
            /\ arg.writes < MaxWrites
            /\ fn' = <<"write", a, i>>
            /\ out' = Undefined
            /\ arg' = [arg EXCEPT !.heap[a][i] = (@ + 1) % 256, !.writes = @ + 1]

NextInstance ==
    \/ GetProperties
    \/ GetRange
    \/ GetRangeObjects
    \/ Read
    \/ QueryInstance
    \/ Mutate

SpecInstance == InitInstance /\ [][NextInstance]_vars

-----------------------------------------------------------------------------
(* Properties.  Each is stated on the call recorded in fn, arg and out.    *)

\* whether the parse of the value v fails
Failed(v) == parse(v, Undefined) = Null

NullOnFailure == {"newFromText", "sanitize", "abbreviate", "lengthen"}
FalseOnFailure == {"isIP", "isIPv4", "isIPv6", "isCIDR", "isIPv4CIDR", "isIPv6CIDR"}
Comparisons == {"contains", "isInRange", "equals"}

\* C1: for every input value, string or not, a failed parse is reported as a
\* value and never as an exception: newFromText, sanitize, abbreviate and
\* lengthen return null, the isIP family returns false, and contains,
\* isInRange and equals return null when the parse of either operand fails;
\* none of these operations throws.
C1_FailedParseIsAValue ==
    /\ fn[1] \in NullOnFailure \cup FalseOnFailure \cup Comparisons => out.type # "throw"
    /\ fn[1] \in NullOnFailure /\ Failed(arg) => out = Null
    /\ fn[1] \in FalseOnFailure /\ Failed(arg) => out = Bool(FALSE)
    /\ fn[1] \in Comparisons /\ (Failed(arg) \/ Failed(fn[3])) => out = Null

\* a text that is no address (256.168.255.1) was sanitized, with null returned
C1_Witness ==
    /\ fn[1] = "sanitize"
    /\ arg = Str(<<"2", "5", "6", ".", "1", "6", "8", ".", "2", "5", "5", ".", "1">>)
    /\ out = Null

\* every character of g is a decimal digit
AllDigits(g) == \A i \in DOMAIN g : g[i] \in Digits

\* g is 1 to 3 decimal digits of value 0..255
IsOctet(g) == Len(g) \in 1..3 /\ AllDigits(g) /\ ParseDigits(g, 10, 0) <= 255

\* digits is one decimal digit or more, of value at most max
IsPrefixLen(digits, max) ==
    Len(digits) >= 1 /\ AllDigits(digits) /\ ParseDigits(digits, 10, 0) <= max

\* halves are the pieces of a text around '/': four dot-separated octets,
\* then nothing or a prefix length of 0..32
IPv4Shape(halves) ==
    /\ Len(halves) \in {1, 2}
    /\ Len(Split(halves[1], ".")) = 4
    /\ \A i \in 1..4 : IsOctet(Split(halves[1], ".")[i])
    /\ Len(halves) = 2 => IsPrefixLen(halves[2], 32)

\* what the parse of a text of the IPv4 shape is to return
IPv4Expected(halves) ==
    Parsed([i \in 1..4 |-> ParseDigits(Split(halves[1], ".")[i], 10, 0)],
           IF Len(halves) = 2 THEN <<ParseDigits(halves[2], 10, 0)>> ELSE <<>>)

\* C2: parse accepts a cleaned text as IPv4 if and only if it is four
\* dot-separated decimal groups, each of 1 to 3 digits with value 0..255,
\* optionally followed by '/' and digits of value 0..32; on success the parts
\* are the four group values and the bit length the value of the digits.
C2_IPv4Accepted ==
    fn[1] = "parse" /\ arg.type = "string" =>
        /\ (out # Null /\ Len(out.parts) = 4) <=> IPv4Shape(Split(clean(arg.chars), "/"))
        /\ IPv4Shape(Split(clean(arg.chars), "/")) =>
               out = IPv4Expected(Split(clean(arg.chars), "/"))

\* 192.168.255.001 was parsed to [192, 168, 255, 1]
C2_Witness ==
    /\ fn[1] = "parse"
    /\ arg = Str(<<"1", "9", "2", ".", "1", "6", "8", ".", "2", "5", "5", ".",
                   "0", "0", "1">>)
    /\ out = Parsed(<<192, 168, 255, 1>>, <<>>)

\* g is 1 to 4 characters of the class cls
IsHexGroup(g, cls) == Len(g) \in 1..4 /\ \A i \in DOMAIN g : g[i] \in cls

\* the positions of t where two colons stand side by side
DoubleColons(t) == {i \in 1..(Len(t) - 1) : t[i] = ":" /\ t[i + 1] = ":"}

\* the groups of one side of a '::': none when the side is empty
SideGroups(side) == IF side = <<>> THEN <<>> ELSE Split(side, ":")

\* the groups left and right of the '::' at position i of t
LeftGroups(t, i) == SideGroups(SubSeq(t, 1, i - 1))
RightGroups(t, i) == SideGroups(SubSeq(t, i + 2, Len(t)))

\* t is k groups (0 <= k <= 7) of 1 to 4 characters of cls and exactly one '::'
IsCompressed(t, cls) ==
    /\ Cardinality(DoubleColons(t)) = 1
    /\ \A i \in DoubleColons(t) :
           /\ \A j \in DOMAIN LeftGroups(t, i) : IsHexGroup(LeftGroups(t, i)[j], cls)
           /\ \A j \in DOMAIN RightGroups(t, i) : IsHexGroup(RightGroups(t, i)[j], cls)
           /\ Len(LeftGroups(t, i)) + Len(RightGroups(t, i)) <= 7

\* the values of groups of hex digits
GroupValues(groups) == [j \in DOMAIN groups |-> ParseDigits(groups[j], 16, 0)]

\* the 8 parts of a compressed text whose '::' is at position i
Expanded(t, i) ==
    GroupValues(LeftGroups(t, i))
    \o [j \in 1..(8 - Len(LeftGroups(t, i)) - Len(RightGroups(t, i))) |-> 0]
    \o GroupValues(RightGroups(t, i))

\* C3: for every IPv6 text made of k groups (0 <= k <= 7) of 1 to 4 hex
\* digits and exactly one '::', at the start, in the middle or at the end,
\* parse succeeds and returns the groups in order with 8-k zero groups at the
\* position of the '::'.
C3_CompressedAccepted ==
    fn[1] = "parse" /\ arg.type = "string" /\ IsCompressed(clean(arg.chars), AsciiHex) =>
        \A i \in DoubleColons(clean(arg.chars)) :
            out = Parsed(Expanded(clean(arg.chars), i), <<>>)

\* t is exactly 8 groups of 1 to 4 characters of cls, with no '::'
IsFull(t, cls) ==
    /\ Len(Split(t, ":")) = 8
    /\ \A j \in 1..8 : IsHexGroup(Split(t, ":")[j], cls)

\* C4: parse accepts an IPv6 text only when every group outside a '::' has 1
\* to 4 hex digits: the address is 8 such groups, or fewer with one '::'; a
\* single leading or trailing colon, ':::' and two '::' are refused.
C4_OnlyWellFormedAccepted ==
    fn[1] = "parse" /\ arg.type = "string" /\ out # Null /\ Len(out.parts) = 8 =>
        \/ IsFull(StripPrefixLen(clean(arg.chars)), HexDigitProp)
        \/ IsCompressed(StripPrefixLen(clean(arg.chars)), HexDigitProp)

\* the greatest bit length of the family of an address text
MaxBitLen(address) == IF "." \in Range(address) THEN 32 ELSE 128

\* the greatest bit length of the family of an array of parts
MaxBitLenOf(parts) == IF Len(parts) = 4 THEN 32 ELSE 128

\* C5: a prefix length outside the range of the family is never clamped: a
\* '/N' with N above 32 (IPv4) or 128 (IPv6) makes parse return null, a bit
\* length parse returns is the N of the text and within the range, and
\* newFromRange(text, n) returns an instance only for an integer n in the
\* range, with n as its bit length.
C5_PrefixNeverClamped ==
    /\ fn[1] = "parse" /\ arg.type = "string" /\ Len(Split(clean(arg.chars), "/")) = 2 =>
           /\ (/\ Len(Split(clean(arg.chars), "/")[2]) >= 1
               /\ AllDigits(Split(clean(arg.chars), "/")[2])
               /\ ParseDigits(Split(clean(arg.chars), "/")[2], 10, 0)
                      > MaxBitLen(Split(clean(arg.chars), "/")[1]))
                  => out = Null
           /\ out # Null =>
                  /\ out.bitLen = <<ParseDigits(Split(clean(arg.chars), "/")[2], 10, 0)>>
                  /\ out.bitLen[1] <= MaxBitLenOf(out.parts)
    /\ fn[1] = "newFromRange" /\ fn[2].type = "number" /\ out # Null =>
           /\ fn[2].kind = "int"
           /\ 0 <= fn[2].val /\ fn[2].val <= MaxBitLenOf(out.first)
           /\ out.isCidr /\ out.bitLen = fn[2].val

\* newFromRange('192.168.255.1', 33) returned null
C5_Witness ==
    /\ fn = <<"newFromRange", Num(33)>>
    /\ arg = Str(Text4)
    /\ out = Null

\* bit k (1 the most significant) of an array of limbs of the given width
BitOf(parts, width, k) ==
    (parts[((k - 1) \div width) + 1] \div 2 ^ (width - 1 - ((k - 1) % width))) % 2

\* the array read as one number of Len(parts) * width bits
Bits(parts, width) == [k \in 1..(Len(parts) * width) |-> BitOf(parts, width, k)]

\* the number with the bits below the first p replaced by fill
WithLowBits(bits, p, fill) == [k \in DOMAIN bits |-> IF k <= p THEN bits[k] ELSE fill]

\* the width in bits of the limbs of an array of parts
LimbWidth(parts) == IF Len(parts) = 4 THEN 8 ELSE 16

\* every limb of parts is within the width of its family
LimbsInRange(parts, len) ==
    Len(parts) = len /\ \A i \in 1..len : parts[i] \in 0..(2 ^ (2 * len) - 1)

\* C6: for every valid parts array and every prefix length p in 0..W,
\* parseRange's limb-wise result equals the wide-integer reference: read as
\* one W-bit number, first is the address with its low W-p bits cleared and
\* last is the address with its low W-p bits set.
C6_RangeMatchesWideInteger ==
    fn[1] = "parseRange" /\ arg.bitLen # <<>> =>
        /\ out.type = "RangeObject"
        /\ LimbsInRange(out.first, Len(arg.parts))
        /\ LimbsInRange(out.last, Len(arg.parts))
        /\ Bits(out.first, LimbWidth(arg.parts))
               = WithLowBits(Bits(arg.parts, LimbWidth(arg.parts)), arg.bitLen[1], 0)
        /\ Bits(out.last, LimbWidth(arg.parts))
               = WithLowBits(Bits(arg.parts, LimbWidth(arg.parts)), arg.bitLen[1], 1)
        /\ out.bitLen = arg.bitLen[1] /\ out.isCidr

\* fd12:3456:789a:1::1 with 60 bits: the fourth limb is cut inside
C6_Witness ==
    /\ fn[1] = "parseRange"
    /\ arg = Parsed(<<64786, 13398, 30874, 1, 0, 0, 0, 1>>, <<60>>)
    /\ out.first = <<64786, 13398, 30874, 0, 0, 0, 0, 0>>
    /\ out.last = <<64786, 13398, 30874, 15, 65535, 65535, 65535, 65535>>

\* the limbs as texts of the radix, joined by the delimiter
JoinLimbs(limbs, radix, delimiter) ==
    Join([i \in DOMAIN limbs |-> ToDigits(limbs[i], radix)], delimiter)

\* the length of the run of zero limbs that starts at i, 0 when none starts there
ZeroRunAt(limbs, i) ==
    IF limbs[i] # 0 \/ (i > 1 /\ limbs[i - 1] = 0) THEN 0
    ELSE First({j \in i..(Len(limbs) + 1) : j = Len(limbs) + 1 \/ limbs[j] # 0}) - i

\* the length of the longest run of zero limbs
LongestZeroRun(limbs) == Last({ZeroRunAt(limbs, i) : i \in DOMAIN limbs})

\* where the leftmost of the longest runs of zero limbs starts
LongestZeroRunStart(limbs) ==
    First({i \in DOMAIN limbs : ZeroRunAt(limbs, i) = LongestZeroRun(limbs)})

\* the limbs in hex with the run of n zero limbs at position i replaced by '::'
Compressed(limbs, i, n) ==
    JoinLimbs(SubSeq(limbs, 1, i - 1), 16, <<":">>)
    \o <<":", ":">>
    \o JoinLimbs(SubSeq(limbs, i + n, Len(limbs)), 16, <<":">>)

\* the 'short' notation of 8 limbs: the leftmost longest run of two or more
\* zero limbs replaced by '::', nothing else changed
ShortNotation(limbs) ==
    IF LongestZeroRun(limbs) < 2 THEN JoinLimbs(limbs, 16, <<":">>)
    ELSE Compressed(limbs, LongestZeroRunStart(limbs), LongestZeroRun(limbs))

\* the notation of the limbs in a mode: "unset", "short" or "long"
Notation(limbs, mode) ==
    IF Len(limbs) = 4
    THEN IF mode = "long"
         THEN Join([i \in 1..4 |-> SubSeq(<<"0", "0">> \o ToDigits(limbs[i], 10),
                                          Len(ToDigits(limbs[i], 10)), 
                                          Len(ToDigits(limbs[i], 10)) + 2)], <<".">>)
         ELSE JoinLimbs(limbs, 10, <<".">>)
    ELSE IF mode = "long"
    THEN Join([i \in 1..8 |-> SubSeq(<<"0", "0", "0">> \o ToDigits(limbs[i], 16),
                                     Len(ToDigits(limbs[i], 16)),
                                     Len(ToDigits(limbs[i], 16)) + 3)], <<":">>)
    ELSE IF mode = "short" THEN ShortNotation(limbs)
    ELSE JoinLimbs(limbs, 16, <<":">>)

\* the mode of the operation recorded in fn
ModeOf(f) ==
    CASE f[1] = "sanitize" -> "unset"
      [] f[1] = "abbreviate" -> "short"
      [] f[1] = "lengthen" -> "long"
      [] f[1] = "stringify" -> f[2]

\* the first address of the network of a parse, by the wide-integer reference
NetworkBits(p) ==
    WithLowBits(Bits(p.parts, LimbWidth(p.parts)),
                IF p.bitLen = <<>> THEN MaxBitLenOf(p.parts) ELSE p.bitLen[1], 0)

\* what an operation is to render for the parse p of its text
Rendering(p, mode, limbs) ==
    /\ Bits(limbs, LimbWidth(p.parts)) = NetworkBits(p)
    /\ out = Str(Notation(limbs, mode)
                 \o (IF p.bitLen = <<>> THEN <<>> ELSE <<"/">> \o ToDigits(p.bitLen[1], 10)))

\* C7: inaccurate CIDRs are corrected on output: for every valid text,
\* sanitize, abbreviate, lengthen and newFromText(text).stringify() render the
\* first address of the network in their notation followed by '/p'; a text
\* without a prefix is rendered with its address unchanged and no suffix.
C7_CorrectedOnOutput ==
    /\ fn[1] \in {"sanitize", "abbreviate", "lengthen", "stringify"}
    /\ fn[1] # "stringify" => ~fn[2]
    /\ ~Failed(arg)
    => Rendering(parse(arg, Undefined), ModeOf(fn),
                 parseRange(parse(arg, Undefined).parts, parse(arg, Undefined).bitLen).first)

\* C8: for every array of 8 limbs, stringify in 'short' mode returns the
\* limbs in lowercase hex joined by ':' with the leftmost longest run of two
\* or more zero limbs replaced by '::' and nothing else changed, then the
\* suffix; with no such run it returns the uncompressed text.
C8_ShortNotation ==
    fn[1] = "stringify" /\ fn[2] = "short" /\ ~fn[3] /\ Len(arg.decimals) = 8 =>
        out = Str(ShortNotation(arg.decimals) \o arg.suffix)

\* the text returned for the limbs and suffix in arg under another mode
InMode(mode) == stringify(arg.decimals, arg.suffix, Options(mode, fn[3]))

\* C9 as stated: for every IPv6 limb array and suffix, stringify with mode
\* unset returns the same text as with mode 'short'; so it does for IPv4.
C9_UnsetIsShort ==
    fn[1] = "stringify" /\ fn[2] = "unset" => out = InMode("short")

\* C9: for an IPv6 limb array, stringify with mode unset returns the
\* uncompressed text, which has no '::' and is not the text of mode 'short'
\* when the limbs hold a run of two or more zero limbs; for an IPv4 limb
\* array, mode unset and mode 'short' return the same text.
C9_UnsetIsUncompressed ==
    fn[1] = "stringify" /\ fn[2] = "unset" =>
        /\ Len(arg.decimals) = 4 => out = InMode("short")
        /\ Len(arg.decimals) = 8 => DoubleColons(out.chars) = {}
        /\ Len(arg.decimals) = 8 /\ LongestZeroRun(arg.decimals) >= 2 =>
               out # InMode("short")

\* fd12:3456:789a:1:0:0:0:0 was returned for limbs that 'short' compresses
C9_Witness ==
    /\ fn = <<"stringify", "unset", FALSE>>
    /\ arg.decimals = <<64786, 13398, 30874, 1, 0, 0, 0, 0>>
    /\ arg.suffix = <<>>
    /\ out = Str(<<"f", "d", "1", "2", ":", "3", "4", "5", "6", ":", "7", "8", "9", "a",
                   ":", "1", ":", "0", ":", "0", ":", "0", ":", "0">>)
    /\ out # InMode("short")

\* the digits a group may hold: decimal for IPv4, hex in the case asked for
GroupChars(len, upper) ==
    IF len = 4 THEN Digits ELSE IF upper THEN Range(UpperHex) ELSE Range(LowerHex)

\* g writes the limb in the radix with digits of cls: without leading zeros
\* when width is 0, with exactly width digits otherwise
WritesLimb(g, limb, radix, cls, width) ==
    /\ Len(g) >= 1
    /\ \A i \in DOMAIN g : g[i] \in cls
    /\ ParseDigits(g, radix, 0) = limb
    /\ IF width = 0 THEN Len(g) > 1 => g[1] # "0" ELSE Len(g) = width

\* text is the groups of the limbs, each written as WritesLimb asks, then the suffix
WritesLimbs(text, limbs, suffix, delimiter, radix, cls, width) ==
    /\ Len(text) >= Len(suffix)
    /\ SubSeq(text, Len(text) - Len(suffix) + 1, Len(text)) = suffix
    /\ Len(Split(SubSeq(text, 1, Len(text) - Len(suffix)), delimiter)) = Len(limbs)
    /\ \A i \in DOMAIN limbs :
           WritesLimb(Split(SubSeq(text, 1, Len(text) - Len(suffix)), delimiter)[i],
                      limbs[i], radix, cls, width)

\* C10: the uncompressed notations are exact: with mode unset an IPv6 address
\* is 8 hex groups without leading zeros and without '::' and an IPv4 address
\* 4 decimal groups without leading zeros; with mode 'long' every IPv4 limb
\* has exactly 3 decimal digits and every IPv6 limb exactly 4 hex digits.
C10_UncompressedExact ==
    fn[1] = "stringify" /\ fn[2] \in {"unset", "long"} =>
        /\ out.type = "string"
        /\ WritesLimbs(out.chars, arg.decimals, arg.suffix,
                       IF Len(arg.decimals) = 4 THEN "." ELSE ":",
                       IF Len(arg.decimals) = 4 THEN 10 ELSE 16,
                       GroupChars(Len(arg.decimals), fn[3]),
                       IF fn[2] = "unset" THEN 0 ELSE IF Len(arg.decimals) = 4 THEN 3 ELSE 4)

\* fd12:3456:789a:0001:0000:0000:0000:0000 was returned in mode 'long'
C10_Witness ==
    /\ fn = <<"stringify", "long", FALSE>>
    /\ arg.decimals = <<64786, 13398, 30874, 1, 0, 0, 0, 0>>
    /\ arg.suffix = <<>>
    /\ out = Str(<<"f", "d", "1", "2", ":", "3", "4", "5", "6", ":", "7", "8", "9", "a",
                   ":", "0", "0", "0", "1", ":", "0", "0", "0", "0", ":",
                   "0", "0", "0", "0", ":", "0", "0", "0", "0", ":", "0", "0", "0", "0">>)

\* the limbs the groups write, in the radix
LimbsOf(groups, radix) == [i \in DOMAIN groups |-> ParseDigits(groups[i], radix, 0)]

\* groups are len groups of digits of the radix without leading zeros, of
\* values within a limb, and the bits after the first p are zero
IsExactAddress(groups, len, radix, cls, p) ==
    /\ Len(groups) = len
    /\ \A i \in 1..len :
           /\ Len(groups[i]) \in 1..(IF len = 4 THEN 3 ELSE 4)
           /\ WritesLimb(groups[i], ParseDigits(groups[i], radix, 0), radix, cls, 0)
    /\ LimbsInRange(LimbsOf(groups, radix), len)
    /\ Bits(LimbsOf(groups, radix), 2 * len)
           = WithLowBits(Bits(LimbsOf(groups, radix), 2 * len), p, 0)

\* digits write a prefix length of at most max without leading zeros
IsExactPrefix(digits, max) ==
    /\ IsPrefixLen(digits, max)
    /\ Len(digits) > 1 => digits[1] # "0"

\* the prefix length the halves of a text around '/' state, max when none
PrefixOf(halves, max) == IF Len(halves) = 2 THEN ParseDigits(halves[2], 10, 0) ELSE max

\* halves are the pieces around '/' of a text in sanitized form whose address
\* is the first address of its network
IsCanonical(halves) ==
    /\ Len(halves) \in {1, 2}
    /\ Len(halves) = 2 => IsExactPrefix(halves[2], MaxBitLen(halves[1]))
    /\ IF "." \in Range(halves[1])
       THEN IsExactAddress(Split(halves[1], "."), 4, 10, Digits, PrefixOf(halves, 32))
       ELSE IsExactAddress(Split(halves[1], ":"), 8, 16, Range(LowerHex),
                           PrefixOf(halves, 128))

\* C11: sanitize and lengthen are idempotent and their output parses again:
\* sanitize(sanitize(s)) = sanitize(s), lengthen(lengthen(s)) = lengthen(s)
\* and sanitize(lengthen(s)) = sanitize(s) for every valid text s; and a
\* text already in sanitized form with an exact network address is returned
\* as it is.
C11_SanitizeLengthenIdempotent ==
    /\ fn[1] = "sanitize" /\ out # Null => sanitize(out, fn[2], "none") = out
    /\ fn[1] = "lengthen" /\ out # Null =>
           /\ lengthen(out, fn[2], "none") = out
           /\ sanitize(out, fn[2], "none") = sanitize(arg, fn[2], "none")
    /\ fn[1] = "sanitize" /\ ~fn[2] /\ arg.type = "string"
           /\ IsCanonical(Split(arg.chars, "/")) => out = arg

\* 1:2:3:4:5:6:7:8/125, already exact, was sanitized to itself
C11_Witness ==
    /\ fn = <<"sanitize", FALSE>>
    /\ arg = Str(Text6 \o <<"/", "1", "2", "5">>)
    /\ IsCanonical(Split(arg.chars, "/"))
    /\ out = arg

\* C12: the short notation round-trips: for every valid text s, abbreviate(s)
\* is a valid text that parses to the limbs and prefix length of sanitize(s),
\* so abbreviate(abbreviate(s)) = abbreviate(s) and sanitize(abbreviate(s)) =
\* sanitize(s).
C12_AbbreviateRoundTrips ==
    fn[1] = "abbreviate" /\ out # Null =>
        /\ abbreviate(out, fn[2], "none") = out
        /\ sanitize(out, fn[2], "none") = sanitize(arg, fn[2], "none")

\* v is an IP instance or a text that represents an address
IsValid(v) == v.type = "IP" \/ ~Failed(v)

\* the number of limbs of a valid operand
LimbCount(v) == Len(getRangeObject(v).first)

\* every limb of the first address of b is at or above that of a, and every
\* limb of the last address of b at or below that of a
LimbwiseWithin(a, b) ==
    \A i \in DOMAIN a.first : a.first[i] <= b.first[i] /\ b.last[i] <= a.last[i]

\* the operands of the comparison in fn, in the order (A, B) of contains(A, B)
Broader == IF fn[1] = "contains" THEN arg ELSE fn[3]
Narrower == IF fn[1] = "contains" THEN fn[3] ELSE arg

Ten8 == Str(<<"1", "0", ".", "0", ".", "0", ".", "0", "/", "8">>)
Ten123 == Str(<<"1", "0", ".", "1", ".", "2", ".", "3">>)
Eleven == Str(<<"1", "1", ".", "0", ".", "0", ".", "0">>)

\* C13: for two valid operands of the same family, contains(A, B) and
\* isInRange(B, A) are true exactly when for every limb index i,
\* A.first[i] <= B.first[i] and B.last[i] <= A.last[i]; 10.0.0.0/8 contains
\* 10.1.2.3 and does not contain 11.0.0.0.
C13_ContainsIsLimbwise ==
    /\ fn[1] \in {"contains", "isInRange"} /\ IsValid(arg) /\ IsValid(fn[3])
           /\ LimbCount(arg) = LimbCount(fn[3]) =>
           out = Bool(LimbwiseWithin(getRangeObject(Broader), getRangeObject(Narrower)))
    /\ fn[1] = "contains" /\ arg = Ten8 /\ fn[3] = Ten123 => out = Bool(TRUE)
    /\ fn[1] = "contains" /\ arg = Ten8 /\ fn[3] = Eleven => out = Bool(FALSE)
    /\ fn[1] = "isInRange" /\ arg = Ten123 /\ fn[3] = Ten8 => out = Bool(TRUE)
    /\ fn[1] = "isInRange" /\ arg = Eleven /\ fn[3] = Ten8 => out = Bool(FALSE)

\* IPUtil.contains('10.0.0.0/8', '11.0.0.0') returned false
C13_Witness ==
    /\ fn = <<"contains", "util", Eleven>>
    /\ arg = Ten8
    /\ out = Bool(FALSE)

\* a and b are valid operands of different families
CrossFamily(a, b) == IsValid(a) /\ IsValid(b) /\ LimbCount(a) # LimbCount(b)

\* C14: comparing across families never throws and never matches: for a
\* valid IPv4 operand and a valid IPv6 operand, in either order, as text or
\* as IP instance, contains, isInRange and equals return false (not null);
\* an 'any' query never returns the index of such an element, and an 'all'
\* query on an array that holds one returns false.
C14_CrossFamilyNeverMatches ==
    /\ fn[1] \in SingleQueries /\ CrossFamily(arg, fn[3]) => out = Bool(FALSE)
    /\ fn[1] \in AnyQueries /\ IsValid(arg) /\ fn[3].type = "array" =>
           /\ out.type = "number"
           /\ out.val \in -1..(Len(fn[3].items) - 1)
           /\ out.val >= 0 => ~CrossFamily(arg, fn[3].items[out.val + 1])
    /\ fn[1] \in AllQueries /\ IsValid(arg) /\ fn[3].type = "array"
           /\ (\E i \in DOMAIN fn[3].items : CrossFamily(arg, fn[3].items[i])) =>
           out = Bool(FALSE)

\* IP.newFromText('0.0.0.0/0').equals('::/0') returned false
C14_Witness ==
    /\ fn = <<"equals", "instance", Str(<<":", ":", "/", "0">>)>>
    /\ arg = Str(<<"0", ".", "0", ".", "0", ".", "0", "/", "0">>)
    /\ out = Bool(FALSE)

\* the prefix length a valid operand states, the number of bits of its
\* family when it is a text without one
StatedBitLen(v) ==
    IF v.type = "IP" THEN v.bitLen
    ELSE PrefixOf(Split(clean(v.chars), "/"), MaxBitLenOf(parse(v, Undefined).parts))

\* the first address of the network of a valid operand, as bits
FirstBits(v) ==
    IF v.type = "IP" THEN Bits(v.first, IF Len(v.first) = 4 THEN 8 ELSE 16)
    ELSE WithLowBits(Bits(parse(v, Undefined).parts,
                          IF Len(parse(v, Undefined).parts) = 4 THEN 8 ELSE 16),
                     StatedBitLen(v), 0)

One68 == Str(<<"1", "9", "2", ".", "1", "6", "8", ".", "1", ".", "1">>)
One68Slash32 == Str(One68.chars \o <<"/", "3", "2">>)
One68Padded ==
    Str(<<"1", "9", "2", ".", "1", "6", "8", ".", "0", "0", "1", ".", "0", "0", "1">>)
One68Inexact == Str(<<"1", "9", "2", ".", "1", "6", "8", ".", "1", ".", "7", "7", "/", "2", "4">>)
One68Network == Str(<<"1", "9", "2", ".", "1", "6", "8", ".", "1", ".", "0", "/", "2", "4">>)
Loopback6 == Str(<<":", ":", "1">>)

\* C15: equals(a, b) is true exactly when a and b have the same family, the
\* same bit length (a text without a prefix counting as /32 or /128) and the
\* same first address; IP.newFromText('192.168.1.1').equals(x) is true for
\* x = '192.168.1.1/32' and x = '192.168.001.001' and false for x = '::1',
\* and an inaccurate CIDR equals its corrected form.
C15_EqualsIsFamilyLengthFirst ==
    /\ fn[1] = "equals" /\ IsValid(arg) /\ IsValid(fn[3]) =>
           out = Bool(/\ LimbCount(arg) = LimbCount(fn[3])
                      /\ StatedBitLen(arg) = StatedBitLen(fn[3])
                      /\ FirstBits(arg) = FirstBits(fn[3]))
    /\ fn[1] = "equals" /\ fn[2] = "instance" /\ arg = One68 =>
           /\ fn[3] \in {One68Slash32, One68Padded} => out = Bool(TRUE)
           /\ fn[3] = Loopback6 => out = Bool(FALSE)
    /\ fn[1] = "equals" /\ arg = One68Inexact /\ fn[3] = One68Network => out = Bool(TRUE)

\* IP.newFromText('192.168.1.77/24').equals('192.168.1.0/24') returned true
C15_Witness ==
    /\ fn = <<"equals", "instance", One68Network>>
    /\ arg = One68Inexact
    /\ out = Bool(TRUE)

\* a is a text of an address without a prefix and b is a with the number of
\* bits of its family as the prefix
IsMaxPrefixOf(a, b) ==
    /\ a.type = "string" /\ b.type = "string" /\ ~Failed(a)
    /\ "/" \notin Range(a.chars)
    /\ b.chars = a.chars \o <<"/">> \o ToDigits(MaxBitLenOf(parse(a, Undefined).parts), 10)

\* C16 as stated: an address without a prefix and the same address with the
\* maximum prefix are not equal: equals returns false for '192.168.1.1' and
\* '192.168.1.1/32' in the IPUtil and the IP form, and for an IPv6 address
\* and its '/128' form.
C16_BareDiffersFromMaxPrefix ==
    fn[1] = "equals" /\ (IsMaxPrefixOf(arg, fn[3]) \/ IsMaxPrefixOf(fn[3], arg)) =>
        out = Bool(FALSE)

\* C16 as the code has it: an address without a prefix and the same address
\* with the maximum prefix are equal: equals returns true for '192.168.1.1'
\* and '192.168.1.1/32' in the IPUtil and the IP form, in either order, and
\* for an IPv6 address and its '/128' form.
C16_BareEqualsMaxPrefix ==
    fn[1] = "equals" /\ (IsMaxPrefixOf(arg, fn[3]) \/ IsMaxPrefixOf(fn[3], arg)) =>
        out = Bool(TRUE)

\* IPUtil.equals('192.168.1.1', '192.168.1.1/32') returned true
C16_Witness ==
    /\ fn = <<"equals", "util", One68Slash32>>
    /\ arg = One68
    /\ out = Bool(TRUE)

\* IPUtil.equals('::1/128', '::1') returned true
C16_Witness6 ==
    /\ fn[1] = "equals" /\ IsMaxPrefixOf(fn[3], arg) /\ arg.chars[1] = ":"
    /\ out = Bool(TRUE)

Formats == {"sanitize", "abbreviate", "lengthen"}

\* the valid text v has the family and the kind the condition asks for
Meets(cond, v) ==
    /\ cond \in {"v4", "v4cidr"} => LimbCount(v) = 4
    /\ cond \in {"v6", "v6cidr"} => LimbCount(v) = 8
    /\ cond \in {"cidr", "v4cidr", "v6cidr"} => "/" \in Range(v.chars)

\* r is a whole number of bits that an address of the family of the valid
\* text v has
RangeFits(v, r) == r.kind = "int" /\ r.val \in 0..MaxBitLenOf(parse(v, Undefined).parts)

\* the text v without the prefix length it states
AddressPart(v) == IF v.type = "string" THEN Str(Split(clean(v.chars), "/")[1]) ELSE v

\* v is a text that newFromRange can read: once cleaned, a valid address
\* with nothing around it, alone or followed by one '/' and digits of any
\* value (the digits are replaced by the range; any other suffix stays and
\* makes the text invalid)
RangeTextValid(v) ==
    /\ v.type = "string"
    /\ Len(Split(clean(v.chars), "/")) \in {1, 2}
    /\ Len(Split(clean(v.chars), "/")) = 2 =>
           /\ Split(clean(v.chars), "/")[2] # <<>>
           /\ AllDigits(Split(clean(v.chars), "/")[2])
    /\ Trim(AddressPart(v).chars) = AddressPart(v).chars
    /\ ~Failed(AddressPart(v))

\* the primary operand of the call in fn is a valid address; newFromRange
\* replaces the prefix length of its text, and reads the address part only
PrimaryValid == IF fn[1] = "newFromRange" THEN RangeTextValid(arg) ELSE ~Failed(arg)

\* the call in fn is one that returns: a method of an instance needs the
\* instance, newFromRange a number as range
Callable ==
    /\ fn[1] \in SingleQueries \cup AnyQueries \cup AllQueries /\ fn[2] = "instance" =>
           PrimaryValid
    /\ fn[1] = "newFromRange" => fn[2].type = "number"

\* C17 as stated: in every operation that can return null, null is returned
\* if and only if an address operand is not a valid address or, for an 'all'
\* query, the collection is absent or empty, whatever other arguments
\* (condition predicate, range) are passed.
C17_NullOnlyForInvalidText ==
    fn[1] \notin {"init", "stringify", "new"} /\ Callable =>
        (out = Null <=>
            \/ ~PrimaryValid
            \/ fn[1] \in SingleQueries /\ ~IsValid(fn[3])
            \/ fn[1] \in AllQueries /\ IsEmptyOrNoArray(fn[3]))

\* C17 as the code has it: null is returned if and only if the primary
\* address text is not a valid address, or the other operand of contains,
\* isInRange or equals is not one, or the collection of an 'all' query is no
\* array or empty, or the condition predicate of sanitize, abbreviate or
\* lengthen rejects the address, or the range of newFromRange is no bit
\* length of the family (the prefix length in its text is not read); an invalid element of a collection never gives null.
C17_NullCases ==
    fn[1] \notin {"init", "stringify", "new"} /\ Callable =>
        (out = Null <=>
            \/ ~PrimaryValid
            \/ fn[1] \in SingleQueries /\ ~IsValid(fn[3])
            \/ fn[1] \in AllQueries /\ IsEmptyOrNoArray(fn[3])
            \/ fn[1] \in Formats /\ ~Meets(fn[3], arg)
            \/ fn[1] = "newFromRange" /\ ~RangeFits(AddressPart(arg), fn[2]))

\* IPUtil.sanitize('192.168.1.1', false, (version) => version === 6) returned
\* null for a valid address
C17_Witness ==
    /\ fn = <<"sanitize", FALSE, "v6">>
    /\ arg = One68
    /\ out = Null

\* C18: every 'all' query (isInAllRanges, containsAll, equalsAll, in the
\* IPUtil form and the IP form) returns null, distinct from true and from
\* false, whenever the collection is an empty array or not an array, whether
\* or not the primary address is valid; it is never vacuously true.
C18_AllOfNothingIsNull ==
    fn[1] \in AllQueries /\ (fn[2] = "instance" => PrimaryValid)
        /\ (fn[3].type = "array" => fn[3].items = <<>>) =>
        out = Null /\ out # Bool(TRUE) /\ out # Bool(FALSE)

\* IPUtil.containsAll('10.0.0.0/8', []) returned null
C18_Witness ==
    /\ fn = <<"containsAll", "util", Arr(<<>>)>>
    /\ arg = Ten8
    /\ out = Null

\* the query on one operand that the query on a collection repeats
SingleOf(name) ==
    CASE name \in {"isInAnyRange", "isInAllRanges"} -> "isInRange"
      [] name \in {"containsAny", "containsAll"} -> "contains"
      [] name \in {"equalsAny", "equalsAll"} -> "equals"

\* the positions of the items of the collection in fn that satisfy the query
\* on one operand
Matches ==
    {i \in DOMAIN fn[3].items : IPUtil_query(SingleOf(fn[1]), arg, fn[3].items[i]) = Bool(TRUE)}

\* C19: for a valid primary address and any array, every 'any' query returns
\* the smallest index whose element satisfies the query on one operand, and
\* -1 when none does (also for an empty array); every 'all' query on a
\* non-empty array returns true exactly when every element satisfies it; an
\* element that is no valid address is a non-match and never makes the
\* result null.
C19_AnyIsFirstAllIsEvery ==
    /\ fn[1] \in AnyQueries /\ PrimaryValid /\ fn[3].type = "array" =>
           /\ Matches = {} => out = Num(-1)
           /\ Matches # {} =>
                  out = Num((CHOOSE i \in Matches : \A j \in Matches : i <= j) - 1)
    /\ fn[1] \in AllQueries /\ PrimaryValid /\ ~IsEmptyOrNoArray(fn[3]) =>
           out = Bool(Matches = DOMAIN fn[3].items)

\* an 'any' query passed an invalid first element and returned the index 1
C19_Witness ==
    /\ fn[1] \in AnyQueries /\ fn[2] = "instance"
    /\ out = Num(1)
    /\ ~IsValid(fn[3].items[1])

\* an 'all' query returned false on an array whose only flaw is an element
\* that is no valid address
C19_WitnessAll ==
    /\ fn[1] \in AllQueries /\ PrimaryValid /\ ~IsEmptyOrNoArray(fn[3])
    /\ out = Bool(FALSE)
    /\ \A i \in DOMAIN fn[3].items : i \in Matches \/ ~IsValid(fn[3].items[i])

\* the valid text in arg states no prefix, or its address is the first
\* address of the network it states
IsExact(p) == Bits(p.parts, LimbWidth(p.parts)) = NetworkBits(p)

\* what strict validation is to return for the parse p of a valid text
StrictOutcome(p, mode) ==
    IF IsExact(p) THEN out = Bool(TRUE)
    ELSE Rendering(p, mode, parseRange(p.parts, p.bitLen).first)

\* C20: strict CIDR validation is a three-way outcome: IPUtil.isIP(s,
\* 'strict', options) returns false when s is no valid address, true when s
\* is an address without a prefix or a CIDR whose address is the first
\* address of its network, and otherwise the corrected CIDR text, first
\* address + '/' + prefix, in the notation of the options ('192.168.0.1/24'
\* gives '192.168.0.0/24'); with allowCidr true every valid text gives true,
\* and with allowCidr false every CIDR text gives false.
C20_StrictIsThreeWay ==
    /\ fn[1] = "isIP" /\ Failed(arg) => out = Bool(FALSE)
    /\ fn[1] = "isIP" /\ ~Failed(arg) =>
           CASE fn[2] = "true" -> out = Bool(TRUE)
             [] fn[2] = "false" -> out = Bool(parse(arg, Undefined).bitLen = <<>>)
             [] fn[2] = "strict" -> StrictOutcome(parse(arg, Undefined), fn[3])
    /\ fn[1] = "init" =>
           isIP(Str(<<"1", "9", "2", ".", "1", "6", "8", ".", "0", ".", "1", "/", "2", "4">>),
                "strict", Options("unset", FALSE))
               = Str(<<"1", "9", "2", ".", "1", "6", "8", ".", "0", ".", "0", "/", "2", "4">>)

\* C20 but for the 'short' notation of IPv6
C20_ThreeWayButShort ==
    \/ /\ fn[1] = "isIP" /\ fn[2] = "strict" /\ fn[3] = "short" /\ ~Failed(arg)
       /\ Len(parse(arg, Undefined).parts) = 8
    \/ C20_StrictIsThreeWay

Queries == SingleQueries \cup AnyQueries \cup AllQueries

\* the operand x with every text of a valid address replaced by the instance
\* IP.newFromText gives for it, in x itself and in the items of an array
AsInstance(x) ==
    IF x.type = "array"
    THEN Arr([i \in DOMAIN x.items |->
                 IF x.items[i].type = "string" /\ ~Failed(x.items[i])
                 THEN newFromText(x.items[i]) ELSE x.items[i]])
    ELSE IF x.type = "string" /\ ~Failed(x) THEN newFromText(x)
    ELSE x

\* the operation of IPUtil that formats in the mode
FormatIn(mode) ==
    CASE mode = "unset" -> "sanitize"
      [] mode = "short" -> "abbreviate"
      [] mode = "long" -> "lengthen"

\* C21: the instance form and the stateless form agree: for every valid text
\* a and every argument b (text, IP instance or array),
\* IP.newFromText(a).op(b) returns what IPUtil.op(a, b) returns for the nine
\* queries; IP.newFromText(a).stringify(options) is IPUtil.sanitize,
\* abbreviate or lengthen of a for the mode; and passing IP.newFromText(t)
\* where a text t is accepted, as first operand, as other operand or as item
\* of an array, gives the same result as passing t.
C21_InstanceAgreesWithUtil ==
    /\ fn[1] \in Queries /\ ~Failed(arg) =>
           /\ out = IPUtil_query(fn[1], IF fn[2] = "instance" THEN arg ELSE newFromText(arg),
                                 fn[3])
           /\ out = IP_query(fn[1], newFromText(arg), AsInstance(fn[3]))
    /\ fn[1] = "stringify" /\ ~Failed(arg) =>
           out = IPUtil_format(FormatIn(fn[2]), arg, FALSE, "none")

\* IP.newFromText('10.0.0.0/7').containsAny(['1.2', '10.0.0.0/8']) returned 1
C21_Witness ==
    /\ fn[1] = "containsAny" /\ fn[2] = "instance"
    /\ arg = Str(<<"1", "0", ".", "0", ".", "0", ".", "0", "/", "7">>)
    /\ fn[3].type = "array" /\ Len(fn[3].items) = 2
    /\ fn[3].items[1] = Str(<<"1", ".", "2">>)
    /\ out = Num(1)

\* C22: an IP instance is immutable: after any sequence of calls of its
\* methods, of queries that take it as operand, and of writes of the caller
\* into the arrays getProperties() and getRange() returned, its fields are
\* those of its construction, and getProperties(), stringify() and
\* getBitLength() return what they returned then; also when first and last
\* were built from one parts array.
C22_InstanceImmutable ==
    /\ fields(arg) = arg.made
    /\ fn[1] = "getProperties" => out = getProperties(arg.made)
    /\ fn[1] = "stringify" => out = IP_stringify(arg.made, Options(fn[2], FALSE))
    /\ fn[1] = "getBitLength" => out = IP_getBitLength(arg.made)

\* the caller wrote into an array returned for an instance made from an
\* address without a prefix
C22_Witness ==
    /\ fn[1] = "write" /\ arg.writes = 1
    /\ ~arg.isCidr /\ arg.first = arg.last

\* e is a whole instance of the one address limbs: no CIDR, of the bit length
\* of its family, its first and its last both limbs
IsEndpoint(e, limbs) ==
    /\ e.type = "IP" /\ ~e.isCidr
    /\ e.bitLen = MaxBitLenOf(limbs)
    /\ e.first = limbs /\ e.last = limbs

\* what getRange(true) returned in out is the range of the instance x whose
\* getRange(false) returned texts under the same options
EndpointsOf(x, texts, options) ==
    /\ IsEndpoint(out.first, x.first) /\ IsEndpoint(out.last, x.last)
    /\ IP_stringify(out.first, options) = texts.first
    /\ IP_stringify(out.last, options) = texts.last
    /\ out.bitLen = x.bitLen /\ texts.bitLen = x.bitLen
    /\ out.cidr = Str(texts.first.chars \o <<"/">> \o ToDigits(x.bitLen, 10))
    /\ texts.cidr = out.cidr
    /\ IP_contains(x, out.first) = Bool(TRUE)
    /\ IP_contains(x, out.last) = Bool(TRUE)

\* C23: for every IP instance x, getRange(true) returns first and last as
\* whole IP instances that are no CIDR, have bit length 32 or 128, have their
\* own first equal to their own last, and stringify to the texts that
\* getRange(false) returns as first and last; bitLen is x's bit length, cidr
\* is first + '/' + bitLen also when x is no CIDR, and x contains first and
\* last.
C23_RangeEndpoints ==
    fn[1] = "getRange" /\ fn[2] =>
        EndpointsOf(fields(arg), IP_getRange(fields(arg), FALSE, Options(fn[3], FALSE)),
                    Options(fn[3], FALSE))

\* getRange(true) of the instance of '10.1.2.3', no CIDR, returned the cidr
\* '10.1.2.3/32'
C23_Witness ==
    /\ fn[1] = "getRange" /\ fn[2] /\ ~arg.isCidr
    /\ out.cidr = Str(<<"1", "0", ".", "1", ".", "2", ".", "3", "/", "3", "2">>)

\* halves are the pieces around '/' of the text of a valid address, alone or
\* followed by '/' and digits of any value
IsAddressText(halves) ==
    /\ Len(halves) \in {1, 2}
    /\ Len(halves) = 2 => Len(halves[2]) >= 1 /\ AllDigits(halves[2])
    /\ ~Failed(Str(halves[1]))

\* what newFromRange is to make of the address text and the bit length n
MadeFromRange(address, n) ==
    /\ out.type = "IP" /\ out.isCidr /\ out.bitLen = n
    /\ Bits(out.first, LimbWidth(out.first))
           = WithLowBits(Bits(parse(Str(address), Undefined).parts, LimbWidth(out.first)), n, 0)
    /\ out = newFromText(Str(address \o <<"/">> \o ToDigits(n, 10)))

\* C24: IP.newFromRange(text, n) with a valid address text and an integer n
\* within the range of the family discards a '/N' of the text and gives a
\* CIDR instance (also for n = 32 or 128) of bit length n whose first address
\* is the address of the text masked to n bits; the result is
\* IP.newFromText(address + '/' + n).
C24_RangeReplacesPrefix ==
    fn[1] = "newFromRange" /\ arg.type = "string" /\ fn[2].type = "number"
        /\ fn[2].kind = "int" /\ IsAddressText(Split(clean(arg.chars), "/"))
        /\ fn[2].val \in 0..MaxBitLen(clean(arg.chars)) =>
        MadeFromRange(Split(clean(arg.chars), "/")[1], fn[2].val)

\* newFromRange with range 32 on an IPv4 text that states a prefix length
\* out of range gave a CIDR instance
C24_Witness ==
    /\ fn = <<"newFromRange", Num(32)>>
    /\ arg.type = "string" /\ Len(Split(clean(arg.chars), "/")) = 2
    /\ IsAddressText(Split(clean(arg.chars), "/"))
    /\ ParseDigits(Split(clean(arg.chars), "/")[2], 10, 0) > 32
    /\ out.type = "IP" /\ out.isCidr /\ out.bitLen = 32

\* C25: bad calls are faults and bad data is not: IP.newFromRange throws a
\* TypeError whenever its range is not of type number, whether or not the
\* text is a valid address, while a range of type number never throws and
\* gives null with an invalid text; constructing IPUtil always throws, and
\* constructing IPBase with anything but true as override always throws.
C25_BadCallsThrow ==
    /\ fn[1] = "newFromRange" /\ fn[2].type # "number" => out = Thrown("TypeError")
    /\ fn[1] = "newFromRange" /\ fn[2].type = "number" =>
           /\ out.type # "throw"
           /\ Failed(AddressPart(arg)) => out = Null
    /\ fn[1] = "new" /\ fn[2] = "IPUtil" => out.type = "throw"
    /\ fn[1] = "new" /\ fn[2] = "IPBase" /\ fn[3] # Bool(TRUE) => out.type = "throw"

\* IP.newFromRange('1.2', undefined) threw a TypeError on a text that is no
\* address
C25_Witness ==
    /\ fn = <<"newFromRange", Undefined>>
    /\ arg = Str(<<"1", ".", "2">>)
    /\ out = Thrown("TypeError")

RECURSIVE WithoutMarks(_)
\* the text s with every bidirectional mark left out
WithoutMarks(s) ==
    IF s = <<>> THEN <<>>
    ELSE (IF Head(s) \in BidiChars THEN <<>> ELSE <<Head(s)>>) \o WithoutMarks(Tail(s))

RECURSIVE WithoutLeading(_)
\* the text s from its first character that is no whitespace
WithoutLeading(s) ==
    IF s = <<>> \/ Head(s) \notin WhiteSpace THEN s ELSE WithoutLeading(Tail(s))

RECURSIVE WithoutTrailing(_)
\* the text s up to its last character that is no whitespace
WithoutTrailing(s) ==
    IF s = <<>> \/ s[Len(s)] \notin WhiteSpace THEN s
    ELSE WithoutTrailing(SubSeq(s, 1, Len(s) - 1))

\* the text in arg without its marks and the whitespace around it
Plain == Str(WithoutTrailing(WithoutLeading(WithoutMarks(arg.chars))))

\* C26: invisible characters do not change the outcome: a text with the
\* characters U+200E, U+200F, U+202A..U+202E at any positions and whitespace
\* at its start or end gives, in parse and in the operations on top of it,
\* the result of the text without them, valid or invalid.
C26_MarksAndSpaceIgnored ==
    /\ fn[1] = "parse" /\ arg.type = "string" => out = parse(Plain, Undefined)
    /\ fn[1] = "newFromText" /\ arg.type = "string" => out = newFromText(Plain)
    /\ fn[1] = "sanitize" /\ arg.type = "string" => out = sanitize(Plain, fn[2], "none")
    /\ fn[1] = "parse" /\ arg \in {Str(t) : t \in Decorated(Text4)} /\ " " \notin Range(Plain.chars)
           => out = parse(Str(Text4), Undefined)

\* parse accepted a text with marks in two places inside it and whitespace
\* before it or after it
C26_Witness ==
    /\ fn[1] = "parse" /\ arg.type = "string" /\ out # Null
    /\ \E i, j, k \in DOMAIN arg.chars :
           /\ i < j /\ j < k
           /\ arg.chars[i] \in BidiChars /\ arg.chars[j] \notin BidiChars
           /\ arg.chars[k] \in BidiChars
    /\ \E i \in DOMAIN arg.chars : arg.chars[i] \in WhiteSpace

\* ip is an instance whose first and last are 4 or 8 limbs of their width,
\* whose bit length is one of its family, and whose first and last are the
\* ends of the network of that length: limb-wise ordered, equal in the first
\* bitLen bits, first with 0 and last with 1 in every bit after them
IsRange(ip) ==
    /\ ip.type = "IP"
    /\ Len(ip.first) \in {4, 8}
    /\ LimbsInRange(ip.first, Len(ip.first)) /\ LimbsInRange(ip.last, Len(ip.first))
    /\ ip.bitLen \in 0..MaxBitLenOf(ip.first)
    /\ \A i \in DOMAIN ip.first : ip.first[i] <= ip.last[i]
    /\ Bits(ip.first, LimbWidth(ip.first))
           = WithLowBits(Bits(ip.last, LimbWidth(ip.first)), ip.bitLen, 0)
    /\ Bits(ip.last, LimbWidth(ip.first))
           = WithLowBits(Bits(ip.first, LimbWidth(ip.first)), ip.bitLen, 1)

\* C27: every IP instance reachable through IP.newFromText, IP.newFromRange
\* or getRange(true) has first and last of one length, 4 or 8, every limb in
\* 0..255 or 0..65535, a bit length in 0..32 or 0..128, first[i] <= last[i]
\* for every i, and first and last equal in every bit above the bit length
\* with the lower bits all 0 in first and all 1 in last; in the endpoint
\* instances of getRange(true) first = last.
C27_InstancesAreRanges ==
    /\ IsRange(fields(arg))
    /\ fn[1] = "getRange" /\ fn[2] =>
           /\ IsRange(out.first) /\ out.first.first = out.first.last
           /\ IsRange(out.last) /\ out.last.first = out.last.last

\* getRange(true) of the instance of 'fd12:3456::1/40' returned two different
\* endpoint instances
C27_Witness ==
    /\ fn[1] = "getRange" /\ fn[2]
    /\ arg.bitLen = 40
    /\ out.first.first # out.last.first

\* the text s ends with the text e
EndsWith(s, e) == Len(s) >= Len(e) /\ SubSeq(s, Len(s) - Len(e) + 1, Len(s)) = e

Text4Slash32 == Str(Text4 \o <<"/", "3", "2">>)

\* C28: the CIDR flag records only whether a prefix was written, not its
\* value: IP.newFromText(s).isCIDR() is true exactly when s has a '/N'
\* suffix; 'a/32' gives a CIDR instance whose stringify() ends in '/32', 'a'
\* an instance that is no CIDR and whose stringify() has no suffix, and both
\* have bit length 32 and are equal; stringify() appends '/bitLen' if and
\* only if isCIDR() is true.
C28_FlagRecordsWrittenPrefix ==
    /\ fn[1] = "newFromText" /\ out # Null =>
           /\ IP_isCIDR(out) = Bool("/" \in Range(arg.chars))
           /\ arg \in {Str(Text4), Text4Slash32} =>
                  /\ IP_getBitLength(out) = Num(32)
                  /\ IP_equals(out, Str(Text4)) = Bool(TRUE)
                  /\ IP_equals(out, Text4Slash32) = Bool(TRUE)
    /\ fn[1] = "stringify" /\ ~Failed(arg) =>
           /\ "/" \in Range(out.chars) <=> "/" \in Range(arg.chars)
           /\ "/" \in Range(arg.chars) =>
                  EndsWith(out.chars, <<"/">> \o ToDigits(newFromText(arg).bitLen, 10))
           /\ arg = Text4Slash32 => EndsWith(out.chars, <<"/", "3", "2">>)

\* IP.newFromText(a + '/32') gave a CIDR instance of bit length 32
C28_Witness ==
    /\ fn[1] = "newFromText" /\ arg = Text4Slash32
    /\ out.type = "IP" /\ out.isCidr /\ out.bitLen = 32

\* the last address of the range of a valid operand, as bits
LastBits(v) == WithLowBits(FirstBits(v), StatedBitLen(v), 1)

\* a <= b for two numbers given as bits of the same length, highest first
NotAbove(a, b) ==
    \/ a = b
    \/ \E k \in DOMAIN a : a[k] < b[k] /\ \A j \in 1..(k - 1) : a[j] = b[j]

\* every address of the range of b lies between the first and the last
\* address of a
RangeWithin(a, b) ==
    /\ NotAbove(FirstBits(a), FirstBits(b))
    /\ NotAbove(LastBits(b), LastBits(a))

\* the bit length of a is not greater than that of b, and the first address
\* of b masked to the bit length of a is the first address of a
MaskedMatch(a, b) ==
    /\ StatedBitLen(a) <= StatedBitLen(b)
    /\ WithLowBits(FirstBits(b), StatedBitLen(a), 0) = FirstBits(a)

\* the endpoint instances that getRange(true) returns for the instances
EndpointInstances ==
    UNION {{IP_getRange(i, TRUE, Options("unset", FALSE)).first,
            IP_getRange(i, TRUE, Options("unset", FALSE)).last} : i \in Instances}

\* C29: the limb-wise containment test is exact set inclusion: for valid
\* operands A and B of the same family (addresses, CIDRs of any prefix
\* length, endpoint instances of getRange(true)), contains(A, B) is true if
\* and only if every address of the range of B, read as one number of 32 or
\* 128 bits, lies between the first and the last address of A; equivalently,
\* if and only if the bit length of A is not greater than that of B and the
\* first address of B masked to the bit length of A is the first address of A.
C29_ContainsIsInclusion ==
    fn[1] = "contains" /\ IsValid(arg) =>
        /\ IsValid(fn[3]) /\ LimbCount(arg) = LimbCount(fn[3]) =>
               /\ out = Bool(RangeWithin(arg, fn[3]))
               /\ out = Bool(MaskedMatch(arg, fn[3]))
        /\ \A e \in EndpointInstances :
               LimbCount(arg) = LimbCount(e) =>
                   /\ contains(arg, e) = Bool(RangeWithin(arg, e))
                   /\ contains(arg, e) = Bool(MaskedMatch(arg, e))
                   /\ contains(e, arg) = Bool(RangeWithin(e, arg))
                   /\ contains(e, arg) = Bool(MaskedMatch(e, arg))

\* IPUtil.contains('192.168.1.77/24', x) for the instance x of 192.168.1.1
\* returned true: a network written with host bits contains an address
\* whose limbs are below those of the text
C29_Witness ==
    /\ fn[1] = "contains" /\ arg = One68Inexact
    /\ fn[3].type = "IP" /\ fn[3].first = <<192, 168, 1, 1>>
    /\ out = Bool(TRUE)

\* the third operands of the chains of comparisons
Thirds ==
    Instances \cup {Ten8, Ten123, One68, One68Slash32, One68Padded, One68Network,
                    One68Inexact, Loopback6, Str(<<":", ":", "/", "0">>)}

AllOfFour == Str(<<"0", ".", "0", ".", "0", ".", "0", "/", "0">>)

\* C30: equality and containment are consistent although equality never
\* compares last: for valid operands a and b, equals(a, b) is true if and
\* only if contains(a, b) and contains(b, a) are both true; equals is
\* reflexive, symmetric and transitive, and contains is reflexive and
\* transitive over valid operands.
C30_EqualsIsMutualContainment ==
    /\ fn[1] = "equals" /\ IsValid(arg) /\ IsValid(fn[3]) =>
           /\ out = Bool(/\ contains(arg, fn[3]) = Bool(TRUE)
                         /\ contains(fn[3], arg) = Bool(TRUE))
           /\ equals(fn[3], arg) = out
           /\ equals(arg, arg) = Bool(TRUE)
           /\ equals(fn[3], fn[3]) = Bool(TRUE)
           /\ \A c \in Thirds :
                  out = Bool(TRUE) /\ equals(fn[3], c) = Bool(TRUE) =>
                      equals(arg, c) = Bool(TRUE)
    /\ fn[1] = "contains" /\ IsValid(arg) /\ IsValid(fn[3]) =>
           /\ (out = Bool(TRUE) /\ contains(fn[3], arg) = Bool(TRUE))
                  <=> equals(arg, fn[3]) = Bool(TRUE)
           /\ contains(arg, arg) = Bool(TRUE)
           /\ contains(fn[3], fn[3]) = Bool(TRUE)
           /\ \A c \in Thirds :
                  out = Bool(TRUE) /\ contains(fn[3], c) = Bool(TRUE) =>
                      contains(arg, c) = Bool(TRUE)

\* IPUtil.contains('0.0.0.0/0', '10.0.0.0/8') returned true, and 10.0.0.0/8
\* contains 10.1.2.3: a chain of three ranges
C30_Witness ==
    /\ fn[1] = "contains" /\ arg = AllOfFour /\ fn[3] = Ten8
    /\ out = Bool(TRUE)
    /\ contains(fn[3], Ten123) = Bool(TRUE)

\* IP.newFromText('192.168.1.1').equals('192.168.001.001') returned true:
\* two texts of the same range that are equal and contain each other
C30_WitnessEqual ==
    /\ fn[1] = "equals" /\ fn[2] = "instance"
    /\ arg = One68 /\ fn[3] = One68Padded
    /\ out = Bool(TRUE)

====
